---- MODULE Spec2Model ----
(***************************************************************************)
(* A model of the emulator core: the memory map (Memory), the pixel unit's *)
(* register file (PPU.writeRegister), the 65816 interpreter (CPU) and the  *)
(* facade (Emulator / SNESEmulator).  Numbers are written as in the source *)
(* (\h.. is hexadecimal).  Byte arrays are sparse functions: an index that *)
(* is not in the DOMAIN holds 0.                                           *)
(***************************************************************************)
EXTENDS Integers, Sequences, FiniteSets, TLC

VARIABLES cpu, memory, ppu, emu, last, dmaLog, atReset, snapshot, bus, steps

vars == <<cpu, memory, ppu, emu, last, dmaLog, atReset, snapshot, bus, steps>>

\* ------------------------------------------------------------------------
\* Bounds of the exploration
\* ------------------------------------------------------------------------
MaxSteps == 5

\* ------------------------------------------------------------------------
\* Bit operations on naturals (JavaScript &, | on non-negative values)
\* ------------------------------------------------------------------------
RECURSIVE BitAnd(_, _)
BitAnd(a, b) ==
    IF a = 0 \/ b = 0 THEN 0
    ELSE (a % 2) * (b % 2) + 2 * BitAnd(a \div 2, b \div 2)

BitOr(a, b) == a + b - BitAnd(a, b)

Min(a, b) == IF a < b THEN a ELSE b

\* ------------------------------------------------------------------------
\* Typed arrays: a store past the end is dropped, a load past the end is
\* `undefined` (callers that can reach one say what they do with it).
\* ------------------------------------------------------------------------
EmptyArray == [i \in {} |-> 0]

Load(f, i) == IF i \in DOMAIN f THEN f[i] ELSE 0

Store(f, i, v) ==
    IF v = 0 THEN [j \in (DOMAIN f) \ {i} |-> f[j]] @@ <<>>
    ELSE (i :> v) @@ f

\* new Uint8Array(0x20000), Memory.wram
WRAM_SIZE == 131072

\* new Uint16Array(0x8000), PPU.vram
VRAM_WORDS == 32768

\* new Uint16Array(0x100), PPU.cgram
CGRAM_WORDS == 256

\* ------------------------------------------------------------------------
\* Cartridge images.  An image is its length, a copier-header size, whether
\* it carries a header and the header's base (0x7FB0 low-mapped, 0xFFB0
\* high-mapped, as scoreHeader takes them), the header's fields at the
\* offsets scoreHeader reads, its vectors, its first byte and the content
\* of all other positions: a fill byte, or, when pattern is not 0, the
\* synthetic byte (i * pattern) mod 256.  ImgByte(img, i) is data[i].
\* ------------------------------------------------------------------------
TitleTEST == <<\h54, \h45, \h53, \h54>>

\* Offsets from the header base of the interrupt vectors (0x7FE4 ... 0x7FFE).
VectorSlots == {\h34, \h36, \h3A, \h3C, \h3E, \h44, \h4A, \h4C, \h4E}

HeaderAt(img) == img.copier + (IF img.hi THEN \hFFB0 ELSE \h7FB0)

ImgByte(img, i) ==
    LET r == i - HeaderAt(img)
        slot == r - (r % 2)
        h == img.header
    IN  IF i < img.copier THEN 0
        ELSE IF h /\ r >= 0 /\ r <= 20 THEN
            (IF r < Len(TitleTEST) THEN TitleTEST[r + 1] ELSE \h20)
        ELSE IF h /\ r = \h25 THEN img.type
        ELSE IF h /\ r = \h26 THEN img.makeup
        ELSE IF h /\ r = \h27 THEN img.romSizeCode
        ELSE IF h /\ r = \h28 THEN img.sramCode
        ELSE IF h /\ r = \h29 THEN img.region
        ELSE IF h /\ r = \h2C THEN img.checksum % 256
        ELSE IF h /\ r = \h2D THEN img.checksum \div 256
        ELSE IF h /\ r = \h2E THEN img.complement % 256
        ELSE IF h /\ r = \h2F THEN img.complement \div 256
        ELSE IF h /\ r >= \h30 /\ r <= \h4F /\ slot \in VectorSlots THEN
            (IF r % 2 = 0 THEN img.vec[slot] % 256 ELSE img.vec[slot] \div 256)
        ELSE IF img.pattern # 0 THEN (i * img.pattern) % 256
        ELSE IF i = img.copier THEN img.first
        ELSE img.fill

\* The byte a position holds when it is neither header nor first byte.
PlainByte(img, i) == IF img.pattern # 0 THEN (i * img.pattern) % 256 ELSE img.fill

\* The positions of an image that may not hold their plain byte.
Specials(img) == {HeaderAt(img) + r : r \in 0..79} \cup {img.copier}

RECURSIVE SumOver(_, _)
SumOver(img, S) ==
    IF S = {} THEN 0
    ELSE LET i == CHOOSE j \in S : TRUE
         IN  ImgByte(img, i) + SumOver(img, S \ {i})

\* ------------------------------------------------------------------------
\* Memory (the memory map)
\* ------------------------------------------------------------------------
NoImage ==
    [length |-> 0, copier |-> 0, header |-> FALSE, hi |-> FALSE, type |-> 0,
     makeup |-> 0, romSizeCode |-> 0, sramCode |-> 0, region |-> 0,
     checksum |-> 0, complement |-> 0, vec |-> [s \in VectorSlots |-> 0],
     first |-> 0, fill |-> 0, pattern |-> 0]

\* Memory's field initialisers followed by its constructor's reset().
MemoryNew ==
    [wram |-> EmptyArray, sram |-> EmptyArray, registers |-> EmptyArray,
     rom |-> [length |-> 0, offset |-> 0, img |-> NoImage],
     isLoROM |-> TRUE, hasSRAM |-> FALSE, sramSize |-> 0, romSize |-> 0,
     romMask |-> 0, sramMask |-> 0, headerOffset |-> 0, wramAddress |-> 0,
     vblankActive |-> FALSE, emergencyModeEnabled |-> FALSE]

\* this.rom[i] for an index inside the array
romByte(m, i) == ImgByte(m.rom.img, m.rom.offset + i)

\* The work-RAM cell a read of bank:offset (offset < 0x2000) returns.
wramMirrorIndexBanked(bank, offset) == (bank * 65536 + offset) % WRAM_SIZE

wramMirrorIndex(bank, offset) == offset % \h2000

\* Memory.read8, the value returned.
read8(m, address) ==
    LET addr == address % \h1000000
        bank == addr \div \h10000
        offset == addr % \h10000
        sys == bank <= \h3F \/ (bank >= \h80 /\ bank <= \hBF)
        loSram == m.isLoROM /\ bank >= \h70 /\ bank <= \h7D /\ offset < \h8000
        hiSram == ~m.isLoROM /\ bank >= \h20 /\ bank <= \h3F
                  /\ offset >= \h6000 /\ offset < \h8000
        sramAddr == IF loSram THEN (bank - \h70) * \h8000 + offset
                    ELSE (bank - \h20) * \h2000 + (offset - \h6000)
        loAddr == (bank % \h80) * \h8000 + (offset % \h8000)
        loMasked == BitAnd(loAddr, m.romMask)
        hiAddr == addr % \h400000
        hiAddr2 == ((BitOr(bank % \h40, \hC0)) * \h10000 + offset) % \h400000
    IN  IF sys /\ offset < \h2000 THEN
            Load(m.wram, wramMirrorIndex(bank, offset))
        ELSE IF sys /\ offset >= \h2000 /\ offset < \h6000 THEN
            (IF offset = \h2180 THEN Load(m.wram, m.wramAddress % \h20000)
             ELSE IF offset = \h4210 THEN
                 (Load(m.registers, offset - \h2000) % \h80)
                 + (IF m.vblankActive THEN \h80 ELSE 0)
             ELSE IF offset = \h4211 THEN 0
             ELSE IF offset = \h4212 THEN (IF emu.isInVBlank THEN \h80 ELSE 0)
             ELSE Load(m.registers, offset - \h2000))
        ELSE IF m.hasSRAM /\ (loSram \/ hiSram) THEN
            (IF sramAddr < m.sramSize
             THEN Load(m.sram, BitAnd(sramAddr, m.sramMask)) ELSE 0)
        ELSE IF m.isLoROM THEN
            (IF (bank <= \h3F /\ offset >= \h8000)
                \/ (bank >= \h80 /\ bank <= \hBF /\ offset >= \h8000)
                \/ (bank >= \h40 /\ bank <= \h7F) \/ bank >= \hC0
             THEN (IF loMasked < m.rom.length THEN romByte(m, loMasked) ELSE 0)
             ELSE 0)
        ELSE IF bank >= \hC0 \/ (bank >= \h40 /\ bank <= \h7D) THEN
            (IF hiAddr < m.rom.length THEN romByte(m, hiAddr) ELSE 0)
        ELSE IF sys /\ offset >= \h8000 THEN
            (IF hiAddr2 < m.rom.length THEN romByte(m, hiAddr2) ELSE 0)
        ELSE 0

\* read8 that leaves the vertical-blank flag alone on a read of 0x4210.
read8EffectKeepsFlag(m, address) ==
    LET addr == address % \h1000000
        bank == addr \div \h10000
        offset == addr % \h10000
        sys == bank <= \h3F \/ (bank >= \h80 /\ bank <= \hBF)
    IN  IF sys /\ offset = \h2180 THEN
            [m EXCEPT !.wramAddress = (@ + 1) % \h20000]
        ELSE m

\* Memory.read8, the memory it leaves: the 0x2180 port steps its address
\* and a read of 0x4210 stores the flag-less value back and clears the flag.
read8Effect(m, address) ==
    LET addr == address % \h1000000
        bank == addr \div \h10000
        offset == addr % \h10000
        sys == bank <= \h3F \/ (bank >= \h80 /\ bank <= \hBF)
    IN  IF sys /\ offset = \h2180 THEN
            [m EXCEPT !.wramAddress = (@ + 1) % \h20000]
        ELSE IF sys /\ offset = \h4210 THEN
            [m EXCEPT !.registers =
                Store(@, offset - \h2000, Load(@, offset - \h2000) % \h80),
                      !.vblankActive = FALSE]
        ELSE m

\* Memory.read16
read16(m, address) ==
    read8(read8Effect(m, address), address + 1) * 256 + read8(m, address)

\* Memory.write8 calls handlers the class does not define
\* (handlePPURegisterWrite, handleINIDISPRegisterWrite, ...): the call is a
\* TypeError, raised after the register array was written.
write8Throws(address) ==
    address >= \h2000 /\ address < \h3000
    /\ (address <= \h213F \/ address = \h2100 \/ address = \h4200
        \/ (address >= \h4300 /\ address <= \h437F) \/ address = \h420B)

\* Memory.write8, the memory it leaves (also when it throws).
write8(m, address, value) ==
    LET v == value % 256
    IN  IF address < \h2000 THEN
            [m EXCEPT !.wram = Store(@, address % \h2000, v)]
        ELSE IF address < \h3000 THEN
            [m EXCEPT !.registers = Store(@, address - \h2000, v)]
        ELSE IF address < \h8000 THEN
            (IF address >= \h7E0000 /\ address < \h800000
             THEN [m EXCEPT !.wram = Store(@, address - \h7E0000, v)]
             ELSE m)
        ELSE m

\* Memory.write16: the second write8 is not reached when the first throws.
write16(m, address, value) ==
    IF write8Throws(address) THEN write8(m, address, value % 256)
    ELSE write8(write8(m, address, value % 256), address + 1,
                (value \div 256) % 256)

write16Throws(address) == write8Throws(address) \/ write8Throws(address + 1)

\* Memory.reset: the cartridge array is kept, its mapping fields are not.
MemoryReset(m) ==
    [m EXCEPT !.wram = EmptyArray, !.sram = EmptyArray,
              !.registers = EmptyArray, !.isLoROM = TRUE, !.hasSRAM = FALSE,
              !.sramSize = 0, !.romSize = 0, !.romMask = 0, !.sramMask = 0,
              !.headerOffset = 0, !.wramAddress = 0]

\* Memory.scoreHeader
scoreHeader(img, base) ==
    LET chk == ImgByte(img, base + \h2C) + 256 * ImgByte(img, base + \h2D)
        cmp == ImgByte(img, base + \h2E) + 256 * ImgByte(img, base + \h2F)
        validTitle == \A k \in 0..20 :
            ImgByte(img, base + k) >= \h20 /\ ImgByte(img, base + k) <= \h7E
    IN  IF base + \h50 > img.length THEN 0
        ELSE (IF ImgByte(img, base + \h26) \in {\h20, \h21} THEN 4 ELSE 0)
           + (IF ImgByte(img, base + \h25) <= \h0F THEN 2 ELSE 0)
           + (IF ImgByte(img, base + \h27) >= \h08
                 /\ ImgByte(img, base + \h27) <= \h0C THEN 2 ELSE 0)
           + (IF ImgByte(img, base + \h29) <= \h0E THEN 1 ELSE 0)
           + (IF chk + cmp = \hFFFF THEN 3 ELSE 0)
           + (IF validTitle THEN 2 ELSE 0)

\* The sum of the plain bytes of positions offset .. length - 1 of an
\* image, mod 2^16: the fill byte times their number, or, for a synthetic
\* image (an odd pattern over whole blocks of 256 positions, each block a
\* permutation of 0..255), 32640 a block.
RECURSIVE PlainOver(_, _)
PlainOver(img, S) ==
    IF S = {} THEN 0
    ELSE LET i == CHOOSE j \in S : TRUE
         IN  PlainByte(img, i) + PlainOver(img, S \ {i})

PlainSum(img, offset) ==
    IF img.pattern = 0 THEN (img.fill * (img.length - offset)) % \h10000
    ELSE (((img.length \div 256) - (offset \div 256)) * 32640) % \h10000

\* Memory.calculateChecksum: the 16-bit sum of data[offset..], the four
\* bytes at headerOffset + 0x2C skipped.  Summed in closed form: the plain
\* sum, less the plain bytes of the header and skipped positions, plus the
\* header's bytes.
calculateChecksum(img, offset, headerOffset) ==
    LET skip == (headerOffset + \h2C)..(headerOffset + \h2F)
        range == offset..(img.length - 1)
        special == Specials(img) \cap range
    IN  (PlainSum(img, offset) + \h10000 * 256
         - PlainOver(img, special \cup (skip \cap range))
         + SumOver(img, special \ skip)) % \h10000

\* Memory.loadROM.  data[i] past the end is undefined: the size and
\* save-RAM codes are then not taken.  1024 << sramCode is a 32-bit shift
\* by sramCode mod 32 (no image offered has a code of 21 mod 32, where the
\* shift is negative).
MemoryLoadROM(m, img) ==
    LET offset == IF img.length % 1024 = 512 THEN 512 ELSE 0
        loROMHeader == offset + \h7FB0
        hiROMHeader == offset + \hFFB0
        hiWins == scoreHeader(img, hiROMHeader) > scoreHeader(img, loROMHeader)
        headerOffset == IF hiWins THEN hiROMHeader ELSE loROMHeader
        sramCode == IF headerOffset + \h28 < img.length
                    THEN ImgByte(img, headerOffset + \h28) ELSE 0
        shift == sramCode % 32
        sramSize == IF shift <= 9 THEN 1024 * 2 ^ shift
                    ELSE IF shift <= 20 THEN \h80000
                    ELSE 0
        length == img.length - offset
    IN  [m EXCEPT !.isLoROM = ~hiWins,
                  !.headerOffset = headerOffset,
                  !.romSize = length,
                  !.hasSRAM = IF sramCode > 0 THEN TRUE ELSE @,
                  !.sramSize = IF sramCode > 0 THEN sramSize ELSE @,
                  !.sram = IF sramCode > 0 THEN EmptyArray ELSE @,
                  !.sramMask = IF sramCode > 0 THEN sramSize - 1 ELSE @,
                  !.rom = [length |-> length, offset |-> offset, img |-> img],
                  !.romMask = length - 1]

\* Memory.dumpHeaderData: null (FALSE here) or the fields analyzeROM reads.
dumpHeaderData(m) ==
    LET headerOffset == IF m.isLoROM THEN \h7FD0 ELSE \hFFD0
    IN  IF m.rom.length = 0 \/ m.rom.length < headerOffset + 48
        THEN [null |-> TRUE, romType |-> 0, checksum |-> 0,
              checksumComplement |-> 0]
        ELSE [null |-> FALSE,
              romType |-> romByte(m, headerOffset + \h15),
              checksum |-> romByte(m, headerOffset + \h1E)
                           + 256 * romByte(m, headerOffset + \h1F),
              checksumComplement |-> romByte(m, headerOffset + \h1C)
                           + 256 * romByte(m, headerOffset + \h1D)]

\* Memory.enableEmergencyMode
MemoryEnableEmergencyMode(m) ==
    [m EXCEPT !.registers =
                 Store(Store(@, \h4200 - \h2000,
                             BitOr(Load(@, \h4200 - \h2000), \h80)),
                       \h2100 - \h2000, \h0F),
              !.emergencyModeEnabled = TRUE]

\* Memory.getState: copies of the arrays the map owns and of its mapping
\* fields (its private vram, cgram and oam arrays are never written by the
\* operations modelled here and stay zero).
MemoryGetState(m) ==
    [wram |-> m.wram, sram |-> m.sram, registers |-> m.registers,
     isLoROM |-> m.isLoROM, hasSRAM |-> m.hasSRAM, sramSize |-> m.sramSize,
     romSize |-> m.romSize, romMask |-> m.romMask, sramMask |-> m.sramMask,
     headerOffset |-> m.headerOffset, wramAddress |-> m.wramAddress,
     rom |-> m.rom]

\* Memory.setState
MemorySetState(m, state) ==
    [m EXCEPT !.wram = state.wram, !.sram = state.sram,
              !.registers = state.registers, !.isLoROM = state.isLoROM,
              !.hasSRAM = state.hasSRAM, !.sramSize = state.sramSize,
              !.romSize = state.romSize, !.romMask = state.romMask,
              !.sramMask = state.sramMask,
              !.headerOffset = state.headerOffset,
              !.wramAddress = state.wramAddress, !.rom = state.rom]

\* ------------------------------------------------------------------------
\* PPU (register file, VRAM and palette RAM; the background settings that
\* only the renderer reads are not part of the model)
\* ------------------------------------------------------------------------
Sparse(f) == [j \in {k \in DOMAIN f : f[k] # 0} |-> f[j]]

defaultColors ==
    <<\h0000, \h001F, \h03E0, \h03FF, \h7C00, \h7C1F, \h7FE0, \h7FFF>>

\* PPU.initializeDefaultPalette: the eight colours, a byte per entry.
initializeDefaultPalette ==
    Sparse([j \in 0..15 |-> IF j % 2 = 0 THEN defaultColors[j \div 2 + 1] % 256
                            ELSE defaultColors[j \div 2 + 1] \div 256])

\* The PPU's field initialisers followed by its constructor.
PPUNew ==
    [vram |-> EmptyArray, cgram |-> initializeDefaultPalette,
     _forcedBlank |-> FALSE, _brightness |-> \hF, _bgMode |-> 1,
     _mainScreenEnabled |-> FALSE, _subScreenEnabled |-> FALSE,
     _vramAddress |-> 0, _vramReadBuffer |-> 0, _vramIncrement |-> 1,
     _vramIncrementOnHigh |-> FALSE,
     _cgramAddress |-> 0, _cgramAddressLatch |-> FALSE, _cgramLowByte |-> 0]

\* PPU.reset: the arrays and the mode; the address latches are kept.
PPUReset(p) == [p EXCEPT !.vram = EmptyArray, !.cgram = EmptyArray, !._bgMode = 1]

\* this.vram[i] = v and this.vram[i] of a Uint16Array(0x8000): a store past
\* the end is dropped; a load past the end is undefined (-1 here), which
\* `&` turns into 0.
vramStore(v, i, val) == IF i < VRAM_WORDS THEN Store(v, i, val % \h10000) ELSE v

vramLoad(v, i) == IF i < VRAM_WORDS THEN Load(v, i) ELSE -1

vramBits(v, i) == IF i < VRAM_WORDS THEN Load(v, i) ELSE 0

emergencyPattern(i) ==
    IF i < 8 THEN (IF i % 2 = 0 THEN \hAA ELSE \h55)
    ELSE IF i < 16 THEN (IF i % 2 = 0 THEN \h55 ELSE \hAA)
    ELSE IF i < 24 THEN \hFF ELSE 0

\* PPU.forceSafeState
forceSafeState(p) ==
    LET new == [j \in (0..31) \cup (\h400..\h41F) \cup (\h1000..\h17FF) |->
                   IF j < 32 THEN emergencyPattern(j)
                   ELSE IF j < \h1000 THEN emergencyPattern(j - \h400)
                   ELSE IF j % 2 = 1 THEN 1
                   ELSE LET k == (j - \h1000) \div 2
                        IN  (((k % 32) + (k \div 32)) % 2) + 1]
        colours == (0 :> \h0000) @@ (1 :> \h03E0) @@ (2 :> \h7FFF)
                   @@ (3 :> \h0000) @@ (4 :> \h001F)
    IN  [p EXCEPT !._forcedBlank = FALSE, !._mainScreenEnabled = TRUE,
                  !._subScreenEnabled = TRUE, !._brightness = 15,
                  !.cgram = Sparse([j \in (DOMAIN @) \cup (0..4) |->
                                IF j \in 0..4 THEN colours[j] ELSE @[j]]),
                  !.vram = Sparse([j \in (DOMAIN @) \cup (DOMAIN new) |->
                                IF j \in DOMAIN new THEN new[j] ELSE @[j]])]

\* PPU.writeRegister
writeRegister(p, register, value) ==
    LET reg == register % 256
        val == value % 256
        addr == p._vramAddress
        step == (addr + p._vramIncrement) % \h10000
        lowWord == (vramBits(p.vram, addr) \div 256) * 256 + val
        highWord == (vramBits(p.vram, addr) % 256) + val * 256
    IN  CASE reg = \h00 ->
                [p EXCEPT !._brightness = val % 16, !._forcedBlank = val >= \h80]
          [] reg = \h05 -> [p EXCEPT !._bgMode = val % 8]
          [] reg = \h2C -> [p EXCEPT !._mainScreenEnabled = (val # 0)]
          [] reg = \h2D -> [p EXCEPT !._subScreenEnabled = (val # 0)]
          [] reg = \h21 ->
                [p EXCEPT !._cgramAddress = val, !._cgramAddressLatch = FALSE]
          [] reg = \h22 ->
                IF ~p._cgramAddressLatch
                THEN [p EXCEPT !._cgramLowByte = val, !._cgramAddressLatch = TRUE]
                ELSE [p EXCEPT !.cgram = Store(@, p._cgramAddress,
                                               val * 256 + p._cgramLowByte),
                               !._cgramAddress = (@ + 1) % 256,
                               !._cgramAddressLatch = FALSE]
          [] reg = \h15 ->
                [p EXCEPT !._vramIncrement =
                              IF val % 4 = 0 THEN 1
                              ELSE IF val % 4 = 1 THEN 32 ELSE 128,
                          !._vramIncrementOnHigh = val >= \h80]
          [] reg = \h16 ->
                LET a == (addr \div 256) * 256 + val
                IN  [p EXCEPT !._vramAddress = a,
                              !._vramReadBuffer = vramLoad(p.vram, a)]
          [] reg = \h17 ->
                LET a == (addr % 256) + val * 256
                IN  [p EXCEPT !._vramAddress = a,
                              !._vramReadBuffer = vramLoad(p.vram, a)]
          [] reg = \h18 ->
                [p EXCEPT !.vram = vramStore(@, addr, lowWord),
                          !._vramAddress =
                              IF ~p._vramIncrementOnHigh THEN step ELSE @]
          [] reg = \h19 ->
                [p EXCEPT !.vram = vramStore(@, addr, highWord),
                          !._vramAddress =
                              IF p._vramIncrementOnHigh THEN step ELSE @]
          [] OTHER -> p

\* ------------------------------------------------------------------------
\* CPU.  A handler runs on a machine [cpu, memory, threw]: once a memory
\* write has thrown, the rest of the handler is skipped and the exception
\* leaves step().
\* ------------------------------------------------------------------------
\* The CPU's field initialisers followed by its constructor's reset().
CPUNew(m) ==
    [a |-> 0, x |-> 0, y |-> 0, sp |-> \h01FF, pc |-> read16(m, \hFFFC),
     pbr |-> 0, dbr |-> 0, d |-> 0,
     n |-> FALSE, v |-> FALSE, m |-> TRUE, x_b |-> TRUE, d_flag |-> FALSE,
     i |-> TRUE, z |-> FALSE, c |-> FALSE, emulationMode |-> TRUE,
     cycles |-> 0, isRunning |-> FALSE, irqPending |-> FALSE, halted |-> FALSE,
     _busyWaitCounter |-> 0]

Bit(value, k) == (value \div (2 ^ k)) % 2 = 1

\* CPU.write8 / CPU.write16 (through Memory)
cpuWrite8(s, address, value) ==
    IF s.threw THEN s
    ELSE [s EXCEPT !.memory = write8(@, address, value),
                   !.threw = write8Throws(address)]

cpuWrite16(s, address, value) ==
    IF s.threw THEN s
    ELSE [s EXCEPT !.memory = write16(@, address, value),
                   !.threw = write16Throws(address)]

\* CPU.push8
push8(s, value) ==
    LET c == s.cpu
        stackAddress == (IF c.emulationMode THEN \h0100 ELSE 0) + c.sp
        s1 == cpuWrite8(s, stackAddress, value)
        sp1 == (c.sp - 1) % \h10000
    IN  IF s1.threw THEN s1
        ELSE [s1 EXCEPT !.cpu.sp =
                  IF c.emulationMode THEN BitOr(sp1, \h0100) ELSE sp1]

\* CPU.push16
push16(s, value) == push8(push8(s, (value \div 256) % 256), value % 256)

\* CPU.pop8: the stack pointer it leaves, the byte it returns, the machine
\* it leaves.
popSP(c) ==
    LET sp1 == (c.sp + 1) % \h10000
    IN  IF c.emulationMode THEN BitOr(sp1, \h0100) ELSE sp1

pop8Value(s) ==
    read8(s.memory, (IF s.cpu.emulationMode THEN \h0100 ELSE 0) + popSP(s.cpu))

pop8After(s) ==
    LET sp1 == popSP(s.cpu)
        stackAddress == (IF s.cpu.emulationMode THEN \h0100 ELSE 0) + sp1
    IN  [s EXCEPT !.cpu.sp = sp1, !.memory = read8Effect(@, stackAddress)]

\* CPU.pop16
pop16Value(s) == pop8Value(pop8After(s)) * 256 + pop8Value(s)

pop16After(s) == pop8After(pop8After(s))

\* CPU.getP
getP(c) ==
    (IF c.n THEN \h80 ELSE 0) + (IF c.v THEN \h40 ELSE 0)
    + (IF c.m THEN \h20 ELSE 0) + (IF c.x_b THEN \h10 ELSE 0)
    + (IF c.d_flag THEN \h08 ELSE 0) + (IF c.i THEN \h04 ELSE 0)
    + (IF c.z THEN \h02 ELSE 0) + (IF c.c THEN \h01 ELSE 0)

\* CPU.setP
setP(c, value) ==
    [c EXCEPT !.n = Bit(value, 7), !.v = Bit(value, 6), !.m = Bit(value, 5),
              !.x_b = Bit(value, 4), !.d_flag = Bit(value, 3),
              !.i = Bit(value, 2), !.z = Bit(value, 1), !.c = Bit(value, 0)]

\* CPU.getStatusFlags
getStatusFlags(c, breakFlagValue) ==
    LET flags == getP(c)
        noB == IF Bit(flags, 4) THEN flags - \h10 ELSE flags
    IN  IF c.emulationMode
        THEN BitOr(IF breakFlagValue = 1 THEN BitOr(flags, \h10) ELSE noB, \h20)
        ELSE noB

\* CPU.setZN: the width is the accumulator's, whatever register is tested.
setZN(c, value) ==
    [c EXCEPT !.z = (value % (IF c.m THEN \h100 ELSE \h10000)) = 0,
              !.n = Bit(value, IF c.m THEN 7 ELSE 15)]

\* ------------------------------------------------------------------------
\* CPU.step.  The program bytes are the cartridge's: each step draws its
\* opcode and operand bytes.  Steps are taken while the program counter is
\* in cartridge space and outside the regions step() treats specially
\* (0xFF00-0xFFFF, 0xE680-0xE690), where its loop counters stay 0.
\* ------------------------------------------------------------------------
CodeAt(c) ==
    /\ c.pc >= \h8000 /\ c.pc < \hFF00
    /\ ~(c.pbr = 0 /\ c.pc >= \hE680 /\ c.pc <= \hE690)

CanStep ==
    /\ steps < MaxSteps
    /\ cpu.isRunning
    /\ ~(cpu.irqPending /\ ~cpu.i)
    /\ CodeAt(cpu)

\* The machine after the opcode fetch.
Fetched ==
    [cpu |-> [cpu EXCEPT !.pc = (@ + 1) % \h10000], memory |-> memory,
     threw |-> FALSE]

\* The program counter past n operand bytes.
Operand(s, n) == [s EXCEPT !.cpu.pc = (@ + n) % \h10000]

\* The end of step(): the handler's cycles are added unless it threw.
Retire(op, address, value, s, cycles) ==
    /\ cpu' = IF s.threw THEN s.cpu ELSE [s.cpu EXCEPT !.cycles = @ + cycles]
    /\ memory' = s.memory
    /\ last' = [op |-> op, address |-> address, value |-> value,
                error |-> IF s.threw THEN "TypeError" ELSE "none"]
    /\ steps' = steps + 1
    /\ UNCHANGED <<ppu, emu, dmaLog, atReset, snapshot, bus>>

\* Operand bytes and addresses the steps draw from.
Imm16 == {\h1234, \h00FF, \h8000}

FlagMasks == {\h20, \h10, \h30, \h04}

DataAddrs == {\h0010, \h2100}

CallTargets == {\h9000}

\* CPU.start / CPU.stop
CPUStart ==
    /\ steps < MaxSteps
    /\ cpu' = [cpu EXCEPT !.isRunning = TRUE, !.halted = FALSE]
    /\ last' = [op |-> "start", address |-> 0, value |-> 0, error |-> "none"]
    /\ steps' = steps + 1
    /\ UNCHANGED <<memory, ppu, emu, dmaLog, atReset, snapshot, bus>>

CPUStop ==
    /\ steps < MaxSteps
    /\ cpu.isRunning
    /\ cpu' = [cpu EXCEPT !.isRunning = FALSE, !.halted = TRUE]
    /\ last' = [op |-> "stop", address |-> 0, value |-> 0, error |-> "none"]
    /\ steps' = steps + 1
    /\ UNCHANGED <<memory, ppu, emu, dmaLog, atReset, snapshot, bus>>

\* --- stack instructions
handlePHA ==
    /\ CanStep
    /\ LET s == Fetched
       IN  Retire("PHA", 0, 0,
                  IF s.cpu.m THEN push8(s, s.cpu.a % 256) ELSE push16(s, s.cpu.a), 3)

handlePHX ==
    /\ CanStep
    /\ LET s == Fetched
       IN  Retire("PHX", 0, 0,
                  IF s.cpu.x_b THEN push8(s, s.cpu.x % 256) ELSE push16(s, s.cpu.x), 3)

handlePHY ==
    /\ CanStep
    /\ LET s == Fetched
       IN  Retire("PHY", 0, 0,
                  IF s.cpu.x_b THEN push8(s, s.cpu.y % 256) ELSE push16(s, s.cpu.y), 3)

handlePHP == CanStep /\ Retire("PHP", 0, 0, push8(Fetched, getP(Fetched.cpu)), 3)

handlePHB == CanStep /\ Retire("PHB", 0, 0, push8(Fetched, Fetched.cpu.dbr), 3)

handlePHD == CanStep /\ Retire("PHD", 0, 0, push16(Fetched, Fetched.cpu.d), 4)

handlePHK == CanStep /\ Retire("PHK", 0, 0, push8(Fetched, Fetched.cpu.pbr), 3)

handlePEA ==
    /\ CanStep
    /\ \E address \in Imm16 :
          Retire("PEA", address, 0, push16(Operand(Fetched, 2), address), 5)

handlePLB ==
    /\ CanStep
    /\ LET s == Fetched
           value == pop8Value(s)
           s1 == pop8After(s)
       IN  Retire("PLB", 0, value,
                  [s1 EXCEPT !.cpu = setZN([@ EXCEPT !.dbr = value], value)], 4)

handlePLX ==
    /\ CanStep
    /\ LET s == Fetched
       IN  IF s.cpu.x_b
           THEN Retire("PLX", 0, pop8Value(s),
                       [pop8After(s) EXCEPT !.cpu.x = pop8Value(s)], 4)
           ELSE Retire("PLX", 0, pop16Value(s),
                       [pop16After(s) EXCEPT !.cpu.x = pop16Value(s)], 4)

handlePLY ==
    /\ CanStep
    /\ LET s == Fetched
       IN  IF s.cpu.x_b
           THEN Retire("PLY", 0, pop8Value(s),
                       [pop8After(s) EXCEPT
                           !.cpu = setZN([@ EXCEPT !.y = pop8Value(s)],
                                         pop8Value(s) % 256)], 4)
           ELSE Retire("PLY", 0, pop16Value(s),
                       [pop16After(s) EXCEPT
                           !.cpu = setZN([@ EXCEPT !.y = pop16Value(s)],
                                         pop16Value(s))], 4)

\* --- branches
BranchOffsets == {\h00, \h02, \h7F, \h80, \hFC, \hFE, \hFF}

\* the 8-bit offset sign-extended
SignExtend8(offset) == IF offset >= \h80 THEN offset - \h100 ELSE offset

\* CPU.handleBRA: the operand at 0xFF1C, a target two bytes back and a
\* target of 0xFF1C in bank 0 are not branched to.
handleBRA ==
    /\ CanStep
    /\ \E offset \in BranchOffsets :
          LET s == Fetched
              oldPC == (s.cpu.pc + 1) % \h10000
              newPC == (oldPC + SignExtend8(offset) + \h10000) % \h10000
          IN  Retire("BRA", cpu.pc, offset,
                     IF s.cpu.pc = \hFF1C THEN [s EXCEPT !.cpu.pc = \hFF1E]
                     ELSE IF newPC = oldPC - 2 \/ (newPC = \hFF1C /\ s.cpu.pbr = 0)
                     THEN [s EXCEPT !.cpu.pc = (oldPC + 2) % \h10000]
                     ELSE [s EXCEPT !.cpu.pc = newPC], 3)

\* JSR reads its second operand byte without stepping over it and pushes
\* the address before it.  The step records the address of its opcode.
handleJSR_Absolute ==
    /\ CanStep
    /\ \E targetAddress \in CallTargets :
          LET s == Operand(Fetched, 1)
              s1 == push16(s, s.cpu.pc - 1)
          IN  Retire("JSR", targetAddress, cpu.pbr * \h10000 + cpu.pc,
                     IF s1.threw THEN s1
                     ELSE [s1 EXCEPT !.cpu.pc = targetAddress], 6)

handleJSL_AbsoluteLong ==
    /\ CanStep
    /\ \E targetAddress \in CallTargets, targetBank \in {\h00, \h01} :
          LET s == Operand(Fetched, 2)
              s1 == push16(push8(s, s.cpu.pbr), (s.cpu.pc - 1) % \h10000)
          IN  Retire("JSL", targetBank * \h10000 + targetAddress,
                     cpu.pbr * \h10000 + cpu.pc,
                     IF s1.threw THEN s1
                     ELSE [s1 EXCEPT !.cpu.pbr = targetBank,
                                     !.cpu.pc = targetAddress], 8)

handleRTS ==
    /\ CanStep
    /\ LET s == Fetched
       IN  Retire("RTS", 0, pop16Value(s),
                  [pop16After(s) EXCEPT !.cpu.pc = (pop16Value(s) + 1) % \h10000], 6)

handleRTL ==
    /\ CanStep
    /\ LET s == Fetched
           returnPC == pop16Value(s)
           s1 == pop16After(s)
       IN  Retire("RTL", 0, returnPC,
                  [pop8After(s1) EXCEPT !.cpu.pbr = pop8Value(s1),
                                        !.cpu.pc = (returnPC + 1) % \h10000], 6)

\* CPU.triggerNMI: called from outside step(), whatever the running flag.
triggerNMI ==
    /\ steps < MaxSteps
    /\ LET s == [cpu |-> cpu, memory |-> memory, threw |-> FALSE]
           flags == getStatusFlags(cpu, 0)
           s1 == IF cpu.emulationMode
                 THEN push8(push16(s, cpu.pc), flags)
                 ELSE push8(push16(push8(s, cpu.pbr), cpu.pc), flags)
           s2 == IF s1.threw THEN s1
                 ELSE IF cpu.emulationMode
                 THEN [s1 EXCEPT !.cpu.i = TRUE,
                                 !.cpu.pc = read16(s1.memory, \hFFFA)]
                 ELSE [s1 EXCEPT !.cpu.i = TRUE, !.cpu.d_flag = FALSE,
                                 !.cpu.pbr = 0,
                                 !.cpu.pc = read16(s1.memory, \hFFEA)]
       IN  Retire("NMI", 0, 0, s2, 7)

\* CPU.triggerIRQ: called from outside step().
triggerIRQ ==
    /\ steps < MaxSteps
    /\ cpu' = [cpu EXCEPT !.irqPending = TRUE]
    /\ last' = [op |-> "triggerIRQ", address |-> 0, value |-> 0, error |-> "none"]
    /\ steps' = steps + 1
    /\ UNCHANGED <<memory, ppu, emu, dmaLog, atReset, snapshot, bus>>

\* The step() that finds a pending IRQ with I clear: it runs handleIRQ in
\* place of an instruction and returns before the cycle count is updated.
handleIRQ ==
    /\ steps < MaxSteps
    /\ cpu.isRunning
    /\ cpu.irqPending /\ ~cpu.i
    /\ LET s == [cpu |-> [cpu EXCEPT !.irqPending = FALSE], memory |-> memory,
                 threw |-> FALSE]
           s1 == push8(push16(s, cpu.pc), getP(cpu))
           s2 == IF s1.threw THEN s1
                 ELSE [s1 EXCEPT !.cpu.i = TRUE,
                                 !.cpu.pc = read16(s1.memory, \hFFFE)]
       IN  Retire("IRQ", 0, 0, s2, 0)

\* --- width flags, loads and stores
handleREP ==
    /\ CanStep
    /\ \E immediateValue \in FlagMasks :
          LET s == Operand(Fetched, 1)
          IN  Retire("REP", 0, immediateValue,
                     [s EXCEPT !.cpu = setP(@, BitAnd(getP(@), 255 - immediateValue))],
                     3)

handleSEP ==
    /\ CanStep
    /\ \E immediateValue \in FlagMasks :
          LET s == Operand(Fetched, 1)
              c1 == setP(s.cpu, BitOr(getP(s.cpu), immediateValue))
              c2 == IF Bit(immediateValue, 5) /\ c1.m
                    THEN [c1 EXCEPT !.a = @ % 256] ELSE c1
              c3 == IF Bit(immediateValue, 4) /\ c2.x_b
                    THEN [c2 EXCEPT !.x = @ % 256, !.y = @ % 256] ELSE c2
          IN  Retire("SEP", 0, immediateValue, [s EXCEPT !.cpu = c3], 3)

\* LDA immediate (0xA9)
handleLDA ==
    /\ CanStep
    /\ \E operand \in Imm16 :
          LET s == Fetched
          IN  IF s.cpu.m
              THEN LET a1 == BitAnd(s.cpu.a, \hFF00) + (operand % 256)
                   IN  Retire("LDA", 0, operand % 256,
                              [Operand(s, 1) EXCEPT
                                  !.cpu = setZN([@ EXCEPT !.a = a1], a1)], 2)
              ELSE Retire("LDA", 0, operand,
                          [Operand(s, 2) EXCEPT
                              !.cpu = setZN([@ EXCEPT !.a = operand], operand)], 3)

\* STA zero page (0x85)
handleSTA ==
    /\ CanStep
    /\ \E address \in {a % 256 : a \in DataAddrs} :
          LET s == cpuWrite8(Fetched, address, Fetched.cpu.a)
          IN  Retire("STA", address, Fetched.cpu.a,
                     IF s.threw THEN s ELSE Operand(s, 1), 3)

\* STA absolute (0x8D)
handleSTA_Absolute ==
    /\ CanStep
    /\ \E address \in DataAddrs :
          LET s == Operand(Fetched, 2)
              effectiveAddress == s.cpu.dbr * \h10000 + address
          IN  Retire("STA_Absolute", effectiveAddress, s.cpu.a,
                     IF s.cpu.m THEN cpuWrite8(s, effectiveAddress, s.cpu.a % 256)
                     ELSE cpuWrite16(s, effectiveAddress, s.cpu.a), 4)

handleLDX_Immediate ==
    /\ CanStep
    /\ \E operand \in Imm16 :
          LET s == Fetched
              value == IF s.cpu.x_b THEN operand % 256 ELSE operand
          IN  Retire("LDX", 0, value,
                     [Operand(s, IF s.cpu.x_b THEN 1 ELSE 2) EXCEPT
                         !.cpu = setZN([@ EXCEPT !.x = value], value)],
                     IF s.cpu.x_b THEN 2 ELSE 3)

\* LDY immediate (0xA0): the flags come from setZN on Y.
handleLDY_Immediate ==
    /\ CanStep
    /\ \E operand \in Imm16 :
          LET s == Fetched
              value == IF s.cpu.x_b THEN operand % 256 ELSE operand
          IN  Retire("LDY", 0, value,
                     [Operand(s, IF s.cpu.x_b THEN 1 ELSE 2) EXCEPT
                         !.cpu = setZN([@ EXCEPT !.y = value], value)],
                     IF s.cpu.x_b THEN 2 ELSE 3)

\* --- register transfers
handleTAX ==
    /\ CanStep
    /\ LET s == Fetched
       IN  Retire("TAX", 0, s.cpu.a,
                  [s EXCEPT !.cpu = setZN([@ EXCEPT !.x = s.cpu.a], s.cpu.a)], 2)

handleTAY ==
    /\ CanStep
    /\ LET s == Fetched
       IN  Retire("TAY", 0, s.cpu.a,
                  [s EXCEPT !.cpu = setZN([@ EXCEPT !.y = s.cpu.a], s.cpu.a)], 2)

handleTYX ==
    /\ CanStep
    /\ LET s == Fetched
           value == IF s.cpu.x_b THEN s.cpu.y % 256 ELSE s.cpu.y
       IN  Retire("TYX", 0, value,
                  [s EXCEPT !.cpu = setZN([@ EXCEPT !.x = value], value)], 2)

handleTXS ==
    /\ CanStep
    /\ LET s == Fetched
       IN  Retire("TXS", 0, 0,
                  [s EXCEPT !.cpu.sp = IF s.cpu.emulationMode
                                       THEN \h0100 + (s.cpu.x % 256)
                                       ELSE s.cpu.x], 2)

handleCLC == CanStep /\ Retire("CLC", 0, 0, [Fetched EXCEPT !.cpu.c = FALSE], 2)

\* XCE without the re-enforcement on entering emulation mode.
handleXCE_Unforced ==
    /\ CanStep
    /\ LET s == Fetched
           c1 == [s.cpu EXCEPT !.c = s.cpu.emulationMode,
                               !.emulationMode = s.cpu.c]
       IN  Retire("XCE", s.cpu.sp, getP(s.cpu), [s EXCEPT !.cpu = c1], 2)

\* XCE; the step records the stack pointer and the flags it started from.
handleXCE ==
    /\ CanStep
    /\ LET s == Fetched
           c1 == [s.cpu EXCEPT !.c = s.cpu.emulationMode,
                               !.emulationMode = s.cpu.c]
           c2 == IF c1.emulationMode
                 THEN [c1 EXCEPT !.sp = \h0100 + (@ % 256), !.m = TRUE,
                                 !.x_b = TRUE]
                 ELSE c1
       IN  Retire("XCE", s.cpu.sp, getP(s.cpu), [s EXCEPT !.cpu = c2], 2)

\* --- accumulator arithmetic
handleINC_A ==
    /\ CanStep
    /\ LET s == Fetched
           a1 == IF s.cpu.m THEN (s.cpu.a + 1) % \h100 ELSE (s.cpu.a + 1) % \h10000
       IN  Retire("INC_A", 0, a1, [s EXCEPT !.cpu = setZN([@ EXCEPT !.a = a1], a1)], 2)

handleDEC_A ==
    /\ CanStep
    /\ LET s == Fetched
           a1 == IF s.cpu.m THEN (s.cpu.a + \hFF) % \h100
                 ELSE (s.cpu.a + \hFFFF) % \h10000
       IN  Retire("DEC_A", 0, a1, [s EXCEPT !.cpu = setZN([@ EXCEPT !.a = a1], a1)], 2)

\* ASL A shifts the whole register, whatever the width.
handleASL_A ==
    /\ CanStep
    /\ LET s == Fetched
           a1 == s.cpu.a * 2
       IN  Retire("ASL_A", 0, a1,
                  [s EXCEPT !.cpu = [setZN([@ EXCEPT !.a = a1], a1) EXCEPT
                                        !.c = Bit(a1, 7)]], 2)

\* AND immediate (0x29)
handleAND_Immediate ==
    /\ CanStep
    /\ \E operand \in Imm16 :
          LET s == Fetched
          IN  IF s.cpu.m
              THEN LET a1 == BitAnd(s.cpu.a, \hFF00)
                             + BitAnd(s.cpu.a % 256, operand % 256)
                   IN  Retire("AND", 0, operand % 256,
                              [Operand(s, 1) EXCEPT
                                  !.cpu = setZN([@ EXCEPT !.a = a1], a1 % 256)], 2)
              ELSE LET a1 == BitAnd(s.cpu.a, operand)
                   IN  Retire("AND", 0, operand,
                              [Operand(s, 2) EXCEPT
                                  !.cpu = setZN([@ EXCEPT !.a = a1], a1)], 3)

\* The default case of step()'s switch: an opcode without a handler.
handleUnknown ==
    /\ CanStep
    /\ Retire("unknown", 0, 0, [Fetched EXCEPT !.cpu = setZN(@, @.a)], 2)

\* ------------------------------------------------------------------------
\* Emulator and its wrapper SNESEmulator
\* ------------------------------------------------------------------------
\* Emulator's field initialisers (timeoutId: a timer is pending).
EmulatorNew ==
    [isRunning |-> FALSE, romLoaded |-> FALSE, frameCount |-> 0,
     canvas |-> FALSE, timeoutId |-> FALSE, isInVBlank |-> FALSE,
     emergencyModeEnabled |-> FALSE]

\* Emulator.getState
EmulatorGetState(st) ==
    [romLoaded |-> st.emu.romLoaded, isRunning |-> st.emu.isRunning,
     frameCount |-> st.emu.frameCount,
     memoryState |-> MemoryGetState(st.memory)]

\* No snapshot taken yet.  A snapshot is the object getState returned; `at`
\* remembers the machine it was taken from.
NoSnapshot ==
    [taken |-> FALSE,
     state |-> EmulatorGetState([memory |-> MemoryNew, emu |-> EmulatorNew]),
     at |-> [cpu |-> CPUNew(MemoryNew), memory |-> MemoryNew, ppu |-> PPUNew]]

\* Emulator.reset on the components [memory, ppu, emu].
EmulatorReset(st) ==
    [st EXCEPT !.memory = MemoryReset(@), !.ppu = PPUReset(@),
               !.emu = [@ EXCEPT !.frameCount = 0, !.isRunning = FALSE,
                                 !.romLoaded = FALSE, !.timeoutId = FALSE]]

\* Emulator.enableEmergencyMode
enableEmergencyMode(st) ==
    [st EXCEPT !.emu.emergencyModeEnabled = TRUE,
               !.ppu = forceSafeState(@),
               !.memory = MemoryEnableEmergencyMode(@)]

\* Emulator.analyzeROM
analyzeROM(st) ==
    LET headerData == dumpHeaderData(st.memory)
    IN  IF headerData.null THEN enableEmergencyMode(st)
        ELSE IF headerData.checksum + headerData.checksumComplement # \hFFFF
                \/ headerData.romType > \h10
        THEN enableEmergencyMode(st)
        ELSE st

\* Emulator.loadROM: the flag is set, then reset() runs.
EmulatorLoadROM(st, img) ==
    IF img.length = 0 THEN st
    ELSE analyzeROM(EmulatorReset(
             [st EXCEPT !.memory = MemoryLoadROM(@, img),
                        !.emu.romLoaded = TRUE]))

\* The components at the reset() call inside Emulator.loadROM.
AtLoadReset(st, img) ==
    [st EXCEPT !.memory = MemoryLoadROM(@, img), !.emu.romLoaded = TRUE]

\* The images offered to loadROM.
ResetVector == \h8000

ProgramVectors ==
    [s \in VectorSlots |->
        IF s = \h4C THEN ResetVector
        ELSE IF s \in {\h3A, \h4A} THEN \h8100
        ELSE IF s = \h3C THEN \h7EFF
        ELSE IF s = \h34 THEN \h1000
        ELSE \h8100]

Summed(img) ==
    LET offset == IF img.length % 1024 = 512 THEN 512 ELSE 0
        sum == calculateChecksum(img, offset, HeaderAt(img))
    IN  [img EXCEPT !.checksum = sum, !.complement = \hFFFF - sum]

S2Image ==
    Summed([NoImage EXCEPT !.length = \h10000, !.header = TRUE,
                           !.makeup = \h20,
                           !.romSizeCode = \h06, !.region = \h01,
                           !.vec = ProgramVectors, !.first = \h78])

\* 0x8000 bytes of 0xFF: no header candidate scores a point.
UnscoredImage == [NoImage EXCEPT !.length = \h8000, !.first = \hFF, !.fill = \hFF]

\* The S2 image with a checksum field that is off by one.
MismatchImage == [S2Image EXCEPT !.checksum = (@ + 1) % \h10000]

Images ==
    << S2Image,
       Summed([S2Image EXCEPT !.length = \h8000, !.romSizeCode = \h08]),
       Summed([S2Image EXCEPT !.length = \h8000,
                              !.vec = [ProgramVectors EXCEPT ![\h34] = \h0010]]),
       Summed([S2Image EXCEPT !.hi = TRUE, !.makeup = \h21, !.sramCode = \h03]),
       Summed([S2Image EXCEPT !.length = \h8200, !.copier = 512]),
       [NoImage EXCEPT !.length = \h8000],
       [NoImage EXCEPT !.length = \h4000],
       UnscoredImage,
       MismatchImage >>

\* ------------------------------------------------------------------------
\* MemoryBus: its own cartridge mapping and the eight DMA channels.  log is
\* the record of the last transfer loop: one <<source address, PPU
\* register, byte>> per byte copied.
\* ------------------------------------------------------------------------
NoChannel ==
    [enabled |-> FALSE, direction |-> FALSE, fixed |-> FALSE, mode |-> 0,
     bAddress |-> 0, aAddress |-> 0, size |-> 0]

\* MemoryBus's field initialisers.
BusNew ==
    [isLoROM |-> TRUE, isHiROM |-> FALSE, romMask |-> \hFFFFFF,
     dmaChannels |-> [c \in 0..7 |-> NoChannel], log |-> <<>>]

\* 1 << Math.ceil(Math.log2(n))
RECURSIVE PowerOfTwoFrom(_, _)
PowerOfTwoFrom(p, n) == IF p >= n THEN p ELSE PowerOfTwoFrom(2 * p, n)

\* MemoryBus.initialize with detectROMMode, on the image as it was given.
BusInitialize(b, img) ==
    LET hiromMapByte == IF \hFFD5 < img.length THEN ImgByte(img, \hFFD5) ELSE 0
        hi == hiromMapByte % 2 = 1
    IN  [b EXCEPT !.isLoROM = ~hi, !.isHiROM = hi,
                  !.romMask = PowerOfTwoFrom(1, img.length) - 1]

\* MemoryBus.mapROMAddress: the cartridge offset, -1 outside the cartridge.
mapROMAddress(b, address) ==
    LET bank == (address \div \h10000) % \h100
        offset == address % \h10000
        sysBank == bank < \h40 \/ (bank >= \h80 /\ bank < \hC0)
        upper == (bank >= \h40 /\ bank < \h80) \/ bank >= \hC0
        romBank == IF sysBank THEN (bank % \h80) * 2 + 1
                   ELSE IF bank < \h80 THEN ((bank % \h80) - \h40) * 2
                   ELSE ((bank % \h80) - \hC0) * 2
        romOffset == IF sysBank THEN offset - \h8000 ELSE offset
        \* the low 24 bits of (romBank << 16) | romOffset, which is negative
        \* for banks 0xC0-0xFF; romMask never has a bit above them
        word == (romBank * \h10000 + romOffset + \h1000000) % \h1000000
    IN  IF b.isLoROM THEN
            (IF (bank <= \h7D \/ bank >= \h80) /\ offset >= \h8000
             THEN BitAnd((bank % \h80) * \h8000 + (offset % \h8000), b.romMask)
             ELSE IF bank = 0 /\ address >= \hFFE0 /\ address <= \hFFFF
             THEN \h7FE0 + (address - \hFFE0)
             ELSE -1)
        ELSE IF b.isHiROM THEN
            (IF (bank <= \h3F /\ offset >= \h8000) \/ (bank >= \h40 /\ bank <= \h7D)
                \/ (bank >= \h80 /\ bank <= \hBF /\ offset >= \h8000)
                \/ bank >= \hC0
             THEN BitAnd(word, b.romMask)
             ELSE IF (bank = 0 \/ bank = \h80) /\ address >= \hFFE0
                     /\ address <= \hFFFF
             THEN \hFFE0 + (address - \hFFE0)
             ELSE -1)
        ELSE -1

\* Memory.readROMDirect
readROMDirect(m, address) ==
    IF m.rom.length = 0 \/ address >= m.rom.length THEN 0 ELSE romByte(m, address)

\* Memory.setRegisterDirect
setRegisterDirect(m, address, value) ==
    IF address >= \h2000 /\ address < \h6000
    THEN [m EXCEPT !.registers = Store(@, address - \h2000, value % 256)]
    ELSE m

\* MemoryBus.readByteFromABus: the byte, and the memory the read leaves.
readByteFromABus(b, m, address) ==
    IF mapROMAddress(b, address) >= 0
    THEN readROMDirect(m, mapROMAddress(b, address))
    ELSE read8(m, address)

readByteFromABusEffect(b, m, address) ==
    IF mapROMAddress(b, address) >= 0 THEN m ELSE read8Effect(m, address)

\* MemoryBus.writeToPPURegister on [memory, ppu, log].
writeToPPURegister(st, register, value) ==
    [st EXCEPT !.memory = setRegisterDirect(@, \h2100 + register, value),
               !.ppu = writeRegister(@, register, value)]

\* MemoryBus.setupVRAMDMAFallback on [memory, ppu, log]
tilePattern ==
    <<\h00, \h00, \h00, \h7E, \h00, \h7E, \h00, \h7E,
      \h00, \h7E, \h00, \h7E, \h00, \h7E, \h00, \h00>>

paletteData ==
    <<\h00, \h00, \hFF, \h7F, \h00, \h68, \h00, \h54, \h00, \h40, \hFF, \h00,
      \h80, \h40, \h25, \h25, \hAA, \h1F, \h17, \h7D,
      \h00, \h00, \h00, \h00, \h00, \h00, \h00, \h00, \h00, \h00, \h00, \h00>>

\* The register writes of setupVRAMDMAFallback, in the order it makes
\* them: the VRAM address, 256 tiles of 16 low/high pairs, the palette,
\* the tilemap address, 32 rows of 32 low/high pairs, five settings.
fallbackWrites ==
    <<<<\h16, \h00>>, <<\h17, \h00>>>>
    \o [k \in 1..(256 * 16 * 2) |->
           LET i == (k - 1) \div 32
               j == ((k - 1) % 32) \div 2
           IN  IF k % 2 = 1 THEN <<\h18, tilePattern[j + 1]>>
               ELSE <<\h19, i % 16>>]
    \o <<<<\h21, \h00>>>>
    \o [k \in 1..Len(paletteData) |-> <<\h22, paletteData[k]>>]
    \o <<<<\h16, \h00>>, <<\h17, \h10>>>>
    \o [k \in 1..(32 * 32 * 2) |->
           LET y == (k - 1) \div 64
               x == ((k - 1) % 64) \div 2
           IN  IF k % 2 = 1 THEN <<\h18, (x + y * 2) % 256>>
               ELSE <<\h19, ((x + y) % 7) + 1>>]
    \o <<<<\h05, \h01>>, <<\h07, \h10>>, <<\h0B, \h00>>, <<\h2C, \h01>>,
         <<\h00, \h0F>>>>

\* writeToPPURegister for writes[lo..hi] in order: the first half of the
\* range, then the second half on the state the first half leaves.
RECURSIVE WriteAll(_, _, _, _)
WriteAll(st, writes, lo, hi) ==
    IF lo > hi THEN st
    ELSE IF lo = hi THEN writeToPPURegister(st, writes[lo][1], writes[lo][2])
    ELSE CHOOSE out \in
             { WriteAll(half, writes, ((lo + hi) \div 2) + 1, hi) :
                 half \in {WriteAll(st, writes, lo, (lo + hi) \div 2)} } : TRUE

setupVRAMDMAFallback(st) == WriteAll(st, fallbackWrites, 1, Len(fallbackWrites))

\* MemoryBus.doDMAToPPU: the transfer loop from byte i on.
RECURSIVE DMALoop(_, _, _, _)
DMALoop(b, st, dma, i) ==
    LET size == IF dma.size = 0 THEN 65536 ELSE dma.size
        baseReg == dma.bAddress % \h100
        sourceAddr == IF dma.fixed THEN dma.aAddress
                      ELSE (dma.aAddress + i) % \h1000000
        data == readByteFromABus(b, st.memory, sourceAddr)
        targetReg == baseReg + (IF dma.mode = 1 /\ i % 2 = 1 THEN 1 ELSE 0)
        read == [st EXCEPT !.memory = readByteFromABusEffect(b, @, sourceAddr),
                           !.log = Append(@, <<sourceAddr, targetReg, data>>)]
    IN  IF i >= size THEN st
        ELSE DMALoop(b, writeToPPURegister(read, targetReg, data), dma, i + 1)

doDMAToPPU(b, st, dma) ==
    IF dma.mode \notin {0, 1} THEN st
    ELSE IF dma.bAddress % \h100 = \h00 THEN setupVRAMDMAFallback(st)
    ELSE DMALoop(b, st, dma, 0)

\* MemoryBus.configureDMAChannel
configureDMAChannel(b, channel, dma) ==
    IF channel < 0 \/ channel >= 8 THEN b
    ELSE [b EXCEPT !.dmaChannels[channel] = dma]

\* MemoryBus.executeDMATransfer on [memory, ppu, log]; the channel stays
\* as it was configured.
executeDMATransfer(b, st, channel) ==
    IF channel < 0 \/ channel >= 8 THEN st
    ELSE IF ~b.dmaChannels[channel].enabled THEN st
    ELSE IF b.dmaChannels[channel].direction THEN st
    ELSE IF b.dmaChannels[channel].bAddress >= \h2100
            /\ b.dmaChannels[channel].bAddress <= \h21FF
    THEN doDMAToPPU(b, st, b.dmaChannels[channel])
    ELSE st

\* SNESEmulator.loadROM: the error it throws, "none" when it returns.
LoadError(st, img) ==
    IF img.length < \h8000 THEN "ROM too small"
    ELSE IF ImgByte(img, \h7FE5) = 0 /\ img.length <= \hFFE5
    THEN "TypeError"
    ELSE IF ~EmulatorLoadROM(st, img).emu.romLoaded
    THEN "ROM failed to load into emulator"
    ELSE "none"

Components == [memory |-> memory, ppu |-> ppu, emu |-> emu]

Facade(op, value, error, st) ==
    /\ memory' = st.memory
    /\ ppu' = st.ppu
    /\ emu' = st.emu
    /\ last' = [op |-> op, address |-> 0, value |-> value, error |-> error]
    /\ steps' = steps + 1
    /\ UNCHANGED <<dmaLog, snapshot>>

LoadROM ==
    /\ steps < MaxSteps
    /\ \E k \in 1..Len(Images) :
          LET img == Images[k]
              error == LoadError(Components, img)
              reached == error \notin {"ROM too small", "TypeError"}
          IN  /\ Facade("loadROM", k, error,
                        IF reached THEN EmulatorLoadROM(Components, img)
                        ELSE Components)
              /\ atReset' = IF reached THEN AtLoadReset(Components, img)
                            ELSE atReset
              /\ bus' = IF reached THEN BusInitialize(bus, img) ELSE bus
    /\ UNCHANGED cpu

\* SNESEmulator.run -> Emulator.run: cpu.start() and the timer follow the
\* two checks.
Run ==
    /\ steps < MaxSteps
    /\ IF ~emu.romLoaded
       THEN Facade("run", 0, "Cannot start emulator: No ROM loaded", Components)
            /\ UNCHANGED cpu
       ELSE IF ~emu.canvas
       THEN Facade("run", 0, "Cannot start emulator: No canvas set", Components)
            /\ UNCHANGED cpu
       ELSE IF emu.isRunning
       THEN Facade("run", 0, "none", Components) /\ UNCHANGED cpu
       ELSE /\ Facade("run", 0, "none",
                      [Components EXCEPT !.emu.isRunning = TRUE,
                                         !.emu.timeoutId = TRUE])
            /\ cpu' = [cpu EXCEPT !.isRunning = TRUE, !.halted = FALSE]
    /\ UNCHANGED <<atReset, bus>>

Stop ==
    /\ steps < MaxSteps
    /\ IF emu.isRunning
       THEN /\ Facade("stop", 0, "none",
                      [Components EXCEPT !.emu.isRunning = FALSE,
                                         !.emu.timeoutId = FALSE])
            /\ cpu' = [cpu EXCEPT !.isRunning = FALSE, !.halted = TRUE]
       ELSE Facade("stop", 0, "none", Components) /\ UNCHANGED cpu
    /\ UNCHANGED <<atReset, bus>>

Reset ==
    /\ steps < MaxSteps
    /\ Facade("reset", 0, "none", EmulatorReset(Components))
    /\ atReset' = Components
    /\ UNCHANGED <<cpu, bus>>

\* SNESEmulator.setCanvas: the canvas is kept even when it yields no context.
SetCanvas ==
    /\ steps < MaxSteps
    /\ \E context \in BOOLEAN :
          Facade("setCanvas", IF context THEN 1 ELSE 0,
                 IF context THEN "none"
                 ELSE "Failed to get 2D context from canvas",
                 [Components EXCEPT !.emu.canvas = TRUE])
    /\ UNCHANGED <<cpu, atReset, bus>>

Init ==
    /\ memory = MemoryReset(MemoryNew)
    /\ cpu = CPUNew(MemoryNew)
    /\ ppu = PPUReset(PPUNew)
    /\ emu = EmulatorNew
    /\ last = [op |-> "new", address |-> 0, value |-> 0, error |-> "none"]
    /\ dmaLog = EmptyArray
    /\ atReset = [memory |-> MemoryNew, ppu |-> PPUNew, emu |-> EmulatorNew]
    /\ snapshot = NoSnapshot
    /\ bus = BusNew
    /\ steps = 0

Next == LoadROM \/ Run \/ Stop \/ Reset \/ SetCanvas

Spec == Init /\ [][Next]_vars

\* ------------------------------------------------------------------------
\* The CPU on a memory that holds a cartridge: new CPU(memory) after
\* memory.loadROM(image), then start() and steps.
\* ------------------------------------------------------------------------
InitCPU ==
    /\ memory = MemoryLoadROM(MemoryNew, Images[2])
    /\ cpu = CPUNew(MemoryLoadROM(MemoryNew, Images[2]))
    /\ ppu = PPUNew
    /\ emu = EmulatorNew
    /\ last = [op |-> "new", address |-> 0, value |-> 0, error |-> "none"]
    /\ dmaLog = EmptyArray
    /\ atReset = [memory |-> MemoryNew, ppu |-> PPUNew, emu |-> EmulatorNew]
    /\ snapshot = NoSnapshot
    /\ bus = BusNew
    /\ steps = 0

NextStack ==
    \/ CPUStart \/ CPUStop
    \/ handlePHA \/ handlePHX \/ handlePHY \/ handlePHP
    \/ handlePHB \/ handlePHD \/ handlePHK \/ handlePEA
    \/ handlePLB \/ handlePLX \/ handlePLY
    \/ handleJSR_Absolute \/ handleJSL_AbsoluteLong
    \/ handleRTS \/ handleRTL
    \/ triggerNMI
    \/ handleCLC \/ handleXCE

SpecStack == InitCPU /\ [][NextStack]_vars

NextWidth ==
    \/ CPUStart \/ CPUStop
    \/ handleREP \/ handleSEP
    \/ handleLDA \/ handleSTA \/ handleSTA_Absolute
    \/ handleLDX_Immediate \/ handleLDY_Immediate \/ handleTXS
    \/ handleTAX \/ handleTAY \/ handleTYX
    \/ handleCLC \/ handleXCE
    \/ handleUnknown

SpecWidth == InitCPU /\ [][NextWidth]_vars

\* C1: in emulation mode the stack pointer's high byte is 0x01 after any
\* sequence of pushes and pulls that starts from a stack pointer 0x01xx.
C1_StackPageOne == cpu.emulationMode => cpu.sp \div 256 = \h01

\* C7: every accumulator store and load after REP/SEP works at the width
\* the memory-width flag selects (one byte, neighbour untouched, when the
\* flag is set; both bytes when it is clear), and SEP setting the
\* index-width flag truncates X and Y.
C7_StoreAtWidth ==
    last'.op \in {"STA", "STA_Absolute"} =>
        IF cpu.m
        THEN /\ read8(memory', last'.address) = cpu.a % 256
             /\ read8(memory', last'.address + 1) = read8(memory, last'.address + 1)
        ELSE /\ read8(memory', last'.address) = cpu.a % 256
             /\ read8(memory', last'.address + 1) = cpu.a \div 256

C7_LoadAtWidth ==
    last'.op = "LDA" =>
        IF cpu.m
        THEN cpu'.a % 256 = last'.value /\ cpu'.a \div 256 = cpu.a \div 256
        ELSE cpu'.a = last'.value

C7_TruncateIndex ==
    (last'.op = "SEP" /\ ~cpu.x_b /\ cpu'.x_b) =>
        cpu'.x = cpu.x % 256 /\ cpu'.y = cpu.y % 256

C7_WidthFollowsFlags ==
    [][C7_StoreAtWidth /\ C7_LoadAtWidth /\ C7_TruncateIndex]_vars

\* ------------------------------------------------------------------------
\* The PPU's register file: new PPU(memory), then writeRegister calls.
\* ------------------------------------------------------------------------
\* The register writes offered: <<register, value>>.
RegisterWrites ==
    ({\h15} \X {\h00, \h01, \h02, \h80})
    \cup ({\h16} \X {\h00, \hFF})
    \cup ({\h17} \X {\h10, \h7F, \hFF})
    \cup ({\h18, \h19} \X {\hCD, \h00})
    \cup ({\h21} \X {\h00, \hFF})
    \cup ({\h22} \X {\h34, \h7F, \h80})
    \cup ({\h00} \X {\h8F})

WriteRegister ==
    /\ steps < MaxSteps
    /\ \E w \in RegisterWrites :
          /\ ppu' = writeRegister(ppu, w[1], w[2])
          /\ last' = [op |-> "writeRegister", address |-> w[1],
                      value |-> w[2], error |-> "none"]
    /\ steps' = steps + 1
    /\ UNCHANGED <<cpu, memory, emu, dmaLog, atReset, snapshot, bus>>

InitPPU ==
    /\ memory = MemoryNew
    /\ cpu = CPUNew(MemoryNew)
    /\ ppu = PPUNew
    /\ emu = EmulatorNew
    /\ last = [op |-> "new", address |-> 0, value |-> 0, error |-> "none"]
    /\ dmaLog = EmptyArray
    /\ atReset = [memory |-> MemoryNew, ppu |-> PPUNew, emu |-> EmulatorNew]
    /\ snapshot = NoSnapshot
    /\ bus = BusNew
    /\ steps = 0

SpecPPU == InitPPU /\ [][WriteRegister]_vars

\* C2: a first write to the palette-data register only latches its byte and
\* changes no palette entry; the second write commits the 15-bit value made
\* of the second byte (high) and the first (low) to the entry at the current
\* index, which then advances by one; the entry reads back as written.
C2_FirstWriteLatches ==
    (last'.address = \h22 /\ ~ppu._cgramAddressLatch) =>
        /\ ppu'.cgram = ppu.cgram
        /\ ppu'._cgramAddress = ppu._cgramAddress
        /\ ppu'._cgramLowByte = last'.value
        /\ ppu'._cgramAddressLatch

C2_SecondWriteCommits ==
    (last'.address = \h22 /\ ppu._cgramAddressLatch) =>
        /\ Load(ppu'.cgram, ppu._cgramAddress)
              = (last'.value * 256 + ppu._cgramLowByte) % \h8000
        /\ \A j \in DOMAIN ppu.cgram \ {ppu._cgramAddress} :
              Load(ppu'.cgram, j) = ppu.cgram[j]
        /\ ppu'._cgramAddress = (ppu._cgramAddress + 1) % CGRAM_WORDS
        /\ ~ppu'._cgramAddressLatch

C2_PaletteLatch == [][C2_FirstWriteLatches /\ C2_SecondWriteCommits]_vars

\* C3: the VRAM data write that triggers the step stores its byte in its
\* half of the word at the current word address and advances the address by
\* the configured step modulo 2^16; the other data write stores its byte
\* and leaves the address alone.
C3_ByteStored ==
    /\ last'.address = \h18 =>
          vramBits(ppu'.vram, ppu._vramAddress) % 256 = last'.value
    /\ last'.address = \h19 =>
          vramBits(ppu'.vram, ppu._vramAddress) \div 256 = last'.value

C3_AddressStepped ==
    last'.address \in {\h18, \h19} =>
        ppu'._vramAddress =
            IF (last'.address = \h19) = ppu._vramIncrementOnHigh
            THEN (ppu._vramAddress + ppu._vramIncrement) % \h10000
            ELSE ppu._vramAddress

C3_VramDataWrite ==
    [][ppu._vramIncrement \in {1, 32, 128} /\ C3_ByteStored /\ C3_AddressStepped]_vars

\* ------------------------------------------------------------------------
\* The memory map of an emulator that has been given the S2 image:
\* Memory.write8 and Memory.read8 calls.
\* ------------------------------------------------------------------------
Loaded ==
    EmulatorLoadROM([memory |-> MemoryReset(MemoryNew),
                     ppu |-> PPUReset(PPUNew), emu |-> EmulatorNew], S2Image)

\* The writes and reads offered: <<address, value>> and addresses.
MemWrites ==
    { <<\h000010, \hAB>>, <<\h000010, \h5C>>, <<\h7E0010, \hAB>>,
      <<\h3F0010, \h5C>>, <<\h002100, \h0F>>,
      <<\h004300, \h00>>, <<\h004301, \h22>>, <<\h004305, 32>>,
      <<\h00420B, \h01>> }

MemReads == {\h000010, \h002180, \h004210, \h004212}

IsDMARegister(address) ==
    (address >= \h4300 /\ address <= \h437F) \/ address = \h420B

\* dmaLog keeps the last value the program wrote to each DMA register.
MemWrite8 ==
    /\ steps < MaxSteps
    /\ \E w \in MemWrites :
          /\ memory' = write8(memory, w[1], w[2])
          /\ last' = [op |-> "write8", address |-> w[1], value |-> w[2],
                      error |-> IF write8Throws(w[1]) THEN "TypeError"
                                ELSE "none"]
          /\ dmaLog' = IF IsDMARegister(w[1]) THEN (w[1] :> w[2]) @@ dmaLog
                       ELSE dmaLog
    /\ steps' = steps + 1
    /\ UNCHANGED <<cpu, ppu, emu, atReset, snapshot, bus>>

MemRead8 ==
    /\ steps < MaxSteps
    /\ \E address \in MemReads :
          /\ memory' = read8Effect(memory, address)
          /\ last' = [op |-> "read8", address |-> address,
                      value |-> read8(memory, address), error |-> "none"]
    /\ steps' = steps + 1
    /\ UNCHANGED <<cpu, ppu, emu, dmaLog, atReset, snapshot, bus>>

\* Memory.setVBlankFlag
setVBlankFlag(m, isActive) ==
    [m EXCEPT !.vblankActive = isActive,
              !.registers = IF isActive
                            THEN Store(@, \h4210 - \h2000,
                                       BitOr(Load(@, \h4210 - \h2000), \h80))
                            ELSE @]

MemSetVBlankFlag ==
    /\ steps < MaxSteps
    /\ \E isActive \in BOOLEAN :
          /\ memory' = setVBlankFlag(memory, isActive)
          /\ last' = [op |-> "setVBlankFlag", address |-> 0,
                      value |-> IF isActive THEN 1 ELSE 0, error |-> "none"]
    /\ steps' = steps + 1
    /\ UNCHANGED <<cpu, ppu, emu, dmaLog, atReset, snapshot, bus>>

InitMem ==
    /\ memory = Loaded.memory
    /\ cpu = CPUNew(MemoryNew)
    /\ ppu = Loaded.ppu
    /\ emu = Loaded.emu
    /\ last = [op |-> "loadROM", address |-> 0, value |-> 1, error |-> "none"]
    /\ dmaLog = EmptyArray
    /\ atReset = [memory |-> MemoryNew, ppu |-> PPUNew, emu |-> EmulatorNew]
    /\ snapshot = NoSnapshot
    /\ bus = BusInitialize(BusNew, S2Image)
    /\ steps = 0

NextMem == MemWrite8 \/ MemRead8 \/ MemSetVBlankFlag

SpecMem == InitMem /\ [][NextMem]_vars

ProbeOffsets == {\h0010, \h0011, \h1FFF}

\* C4: after any sequence of writes, a read of bank:offset, bank in
\* 0x00-0x3F and offset < 0x2000, returns what a read of (address & 0x1FFF)
\* returns.
C4_LowMirror ==
    \A bank \in 0..\h3F, offset \in ProbeOffsets :
        read8(memory, bank * \h10000 + offset)
            = read8(memory, (bank * \h10000 + offset) % \h2000)

C4_Written ==
    /\ last.op = "write8"
    /\ Load(memory.wram, \h0010) = \hAB
    /\ read8(memory, \h3F0010) = \hAB

\* C5: a byte written to a work-RAM address (0x7E0000+o, or offset o of a
\* bank in 0x00-0x3F / 0x80-0xBF, o < 0x2000) is read back at offset o of
\* every mirror bank.
IsWorkRAM(address) ==
    LET bank == address \div \h10000
        offset == address % \h10000
    IN  /\ offset < \h2000
        /\ bank <= \h3F \/ (bank >= \h80 /\ bank <= \hBF) \/ bank = \h7E

C5_MirrorVisible ==
    (last.op = "write8" /\ IsWorkRAM(last.address)) =>
        \A bank \in {\h00, \h01, \h3F, \h80, \hBF} :
            read8(memory, bank * \h10000 + (last.address % \h2000)) = last.value

\* C6: with channel 0 set to control 0, destination 0x22 and size 32, a
\* write of 0x01 to 0x420B commits 16 palette entries made of the 32 source
\* bytes (low byte, then high byte) and advances the palette index by 16.
Logged(address) == IF address \in DOMAIN dmaLog THEN dmaLog[address] ELSE 0

Channel0Configured ==
    /\ {\h4300, \h4301, \h4305} \subseteq DOMAIN dmaLog
    /\ Logged(\h4300) = 0
    /\ Logged(\h4301) = \h22
    /\ Logged(\h4305) + 256 * Logged(\h4306) = 32

SourceByte(j) ==
    read8(memory, Logged(\h4304) * \h10000 + 256 * Logged(\h4303)
                  + Logged(\h4302) + j)

C6_Transfer ==
    (Channel0Configured /\ last'.op = "write8" /\ last'.address = \h420B
     /\ last'.value = \h01) =>
        /\ ppu'._cgramAddress = (ppu._cgramAddress + 16) % CGRAM_WORDS
        /\ \A k \in 0..15 :
              Load(ppu'.cgram, (ppu._cgramAddress + k) % CGRAM_WORDS)
                  = (SourceByte(2 * k) + 256 * SourceByte((2 * k) + 1)) % \h8000

C6_PaletteDMA == [][C6_Transfer]_vars

\* ------------------------------------------------------------------------
\* Properties of the embedder's interface (Spec)
\* ------------------------------------------------------------------------
CartProbes == {\h008000, \h00FFFC, \h018000, \h40FFC0, \hC00000}

\* C9: reset() retains the cartridge: after a reset() of an emulator that
\* holds a cartridge the emulator reports it as loaded (so run() is
\* permitted), the mapping classification is the one it had, and every
\* cartridge address reads the byte it read before the reset.
C9_CartridgeRetained ==
    (last.op \in {"reset", "loadROM"}
     /\ last.error \notin {"ROM too small", "TypeError"}
     /\ atReset.memory.rom.length > 0) =>
        /\ emu.romLoaded
        /\ memory.isLoROM = atReset.memory.isLoROM
        /\ \A a \in CartProbes : read8(memory, a) = read8(atReset.memory, a)

\* C10: loading a well-formed image (low-mapped header, map byte 0x20,
\* checksum and complement summing to 0xFFFF, checksum equal to the byte
\* sum) surfaces no error, classifies the cartridge low-mapped and leaves
\* the emulator reporting a loaded cartridge, so that run() is accepted.
WellFormed(img) ==
    /\ img.length >= \h8000
    /\ ~img.hi
    /\ img.makeup = \h20
    /\ img.checksum + img.complement = \hFFFF
    /\ img.checksum = calculateChecksum(img, img.copier, HeaderAt(img))

C10_WellFormedLoads ==
    (last.op = "loadROM" /\ WellFormed(Images[last.value])) =>
        /\ last.error = "none"
        /\ memory.isLoROM
        /\ memory.rom.img = Images[last.value]
        /\ emu.romLoaded

\* C11: loadROM surfaces an error exactly when the image is shorter than
\* 0x8000 bytes or neither header candidate scores above zero, and after
\* such an error the emulator holds no loaded cartridge (run() is refused).
Scored(img) ==
    LET offset == IF img.length % 1024 = 512 THEN 512 ELSE 0
    IN  scoreHeader(img, offset + \h7FB0) > 0 \/ scoreHeader(img, offset + \hFFB0) > 0

C11_LoadErrorExactly ==
    last.op = "loadROM" =>
        LET img == Images[last.value]
        IN  /\ (last.error # "none") <=> (img.length < \h8000 \/ ~Scored(img))
            /\ (last.error # "none") => ~emu.romLoaded

\* ------------------------------------------------------------------------
\* The memory map over a synthetic cartridge: new Memory(), then
\* loadROM(data) with data[i] = (i * 31) mod 256 (a headerless image is
\* classified low-mapped; the high-mapped ones carry a header at 0xFFB0),
\* then Memory.write8 and Memory.read8 calls.
\* ------------------------------------------------------------------------
SyntheticImages ==
    { [NoImage EXCEPT !.length = \h8000, !.pattern = 31],
      [NoImage EXCEPT !.length = \h20000, !.pattern = 31],
      [NoImage EXCEPT !.length = \h10000, !.pattern = 31, !.header = TRUE,
                      !.hi = TRUE, !.makeup = \h21, !.romSizeCode = \h08,
                      !.region = \h01, !.checksum = \h1234,
                      !.complement = \hEDCB, !.vec = ProgramVectors],
      [NoImage EXCEPT !.length = \h400000, !.pattern = 31, !.header = TRUE,
                      !.hi = TRUE, !.makeup = \h21, !.romSizeCode = \h0C,
                      !.region = \h01, !.checksum = \h1234,
                      !.complement = \hEDCB, !.vec = ProgramVectors] }

InitCart ==
    /\ memory \in {MemoryLoadROM(MemoryNew, img) : img \in SyntheticImages}
    /\ cpu = CPUNew(MemoryNew)
    /\ ppu = PPUNew
    /\ emu = EmulatorNew
    /\ last = [op |-> "loadROM", address |-> 0, value |-> 0, error |-> "none"]
    /\ dmaLog = EmptyArray
    /\ atReset = [memory |-> MemoryNew, ppu |-> PPUNew, emu |-> EmulatorNew]
    /\ snapshot = NoSnapshot
    /\ bus = BusNew
    /\ steps = 0

SpecCart == InitCart /\ [][NextMem]_vars

RomProbes ==
    { \h008001, \h00FF00, \h018001, \h3F8123, \h808001, \hBF9000,
      \h400001, \h418001, \h7D8005, \hC08001, \hFF8001, \h7E0010 }

\* The cartridge offset the address translation tables give an address,
\* -1 for an address outside cartridge space.
MappedOffset(m, address) ==
    LET bank == address \div \h10000
        offset == address % \h10000
        sys == bank <= \h3F \/ (bank >= \h80 /\ bank <= \hBF)
    IN  IF m.isLoROM
        THEN (IF (offset >= \h8000 \/ ~sys)
                 /\ ~(bank >= \h70 /\ bank <= \h7D /\ offset < \h8000)
              THEN BitAnd((bank % \h80) * \h8000 + (offset % \h8000),
                          m.rom.length - 1)
              ELSE -1)
        ELSE IF bank >= \hC0 \/ (bank >= \h40 /\ bank <= \h7D)
        THEN address % \h400000
        ELSE IF sys /\ offset >= \h8000
        THEN (bank % \h40) * \h8000 + (offset % \h8000)
        ELSE -1

\* C12: on a synthetic cartridge (byte i is (i * 31) mod 256) every address
\* in cartridge space reads the synthetic byte of the offset the
\* translation tables map it to.
C12_SyntheticBytes ==
    \A a \in RomProbes :
        LET o == MappedOffset(memory, a)
        IN  (o >= 0 /\ o < memory.rom.length) => read8(memory, a) = (o * 31) % 256

\* ------------------------------------------------------------------------
\* Snapshots: Emulator.getState() and the one operation that takes a
\* snapshot back, Memory.setState(snapshot.memoryState), around CPU steps.
\* ------------------------------------------------------------------------
GetState ==
    /\ steps < MaxSteps
    /\ snapshot' = [taken |-> TRUE,
                    state |-> EmulatorGetState(Components),
                    at |-> [cpu |-> cpu, memory |-> memory, ppu |-> ppu]]
    /\ last' = [op |-> "getState", address |-> 0, value |-> 0, error |-> "none"]
    /\ steps' = steps + 1
    /\ UNCHANGED <<cpu, memory, ppu, emu, dmaLog, atReset, bus>>

SetState ==
    /\ steps < MaxSteps
    /\ snapshot.taken
    /\ memory' = MemorySetState(memory, snapshot.state.memoryState)
    /\ last' = [op |-> "setState", address |-> 0, value |-> 0, error |-> "none"]
    /\ steps' = steps + 1
    /\ UNCHANGED <<cpu, ppu, emu, dmaLog, atReset, snapshot, bus>>

NextSnap ==
    \/ CPUStart
    \/ handleLDA \/ handleLDX_Immediate \/ handleSTA_Absolute \/ handleSEP
    \/ GetState \/ SetState

SpecSnap == InitCPU /\ [][NextSnap]_vars

\* C13: taking a snapshot back leaves the observable state identical to the
\* state the snapshot was taken in: work-RAM, save-RAM and register file,
\* VRAM and palette, the CPU's registers and flags and its cycle counter
\* (so that running on from it repeats the original run).
C13_RoundTrip ==
    last.op = "setState" =>
        /\ memory.wram = snapshot.at.memory.wram
        /\ memory.sram = snapshot.at.memory.sram
        /\ memory.registers = snapshot.at.memory.registers
        /\ ppu.vram = snapshot.at.ppu.vram
        /\ ppu.cgram = snapshot.at.ppu.cgram
        /\ [cpu EXCEPT !.isRunning = TRUE, !.halted = FALSE]
               = [snapshot.at.cpu EXCEPT !.isRunning = TRUE, !.halted = FALSE]

\* The 16-bit little-endian value a cartridge image holds at 0x00:FFFC.
CartResetVector(img) ==
    ImgByte(img, HeaderAt(img) + \h4C) + 256 * ImgByte(img, HeaderAt(img) + \h4D)

\* C14: after reset() of an emulator that holds a cartridge, and right
\* after loadROM, the CPU is in its reset state: PC is the cartridge's
\* reset vector, SP is 0x01FF, emulation mode is set, both widths are
\* 8-bit, decimal is clear and irq-disable is set.
C14_CPUResetState ==
    (last.op \in {"reset", "loadROM"}
     /\ last.error \notin {"ROM too small", "TypeError"}
     /\ memory.rom.length > 0) =>
        /\ cpu.pc = CartResetVector(memory.rom.img)
        /\ cpu.sp = \h01FF
        /\ cpu.emulationMode /\ cpu.m /\ cpu.x_b
        /\ ~cpu.d_flag /\ cpu.i

\* ------------------------------------------------------------------------
\* Further properties of the CPU's steps (SpecWidth)
\* ------------------------------------------------------------------------
\* C15: a step on an opcode without a handler adds two cycles, advances PC
\* by one and changes nothing else: no other register, no flag, no memory.
C15_Step ==
    last'.op = "unknown" =>
        /\ cpu' = [cpu EXCEPT !.pc = (@ + 1) % \h10000, !.cycles = @ + 2]
        /\ memory' = memory
        /\ ppu' = ppu

C15_UnknownOpcode == [][C15_Step]_vars

\* C16: a store of v to 0x2100 completes normally and sets the PPU's
\* brightness to v & 0x0F and its forced-blank to bit 7 of v.
C16_Step ==
    (last'.op = "STA_Absolute" /\ last'.address = \h2100) =>
        /\ last'.error = "none"
        /\ ppu'._brightness = last'.value % 16
        /\ ppu'._forcedBlank = Bit(last'.value, 7)

C16_DisplayStore == [][C16_Step]_vars

\* C20: in every reachable CPU state, emulation mode implies that the
\* memory-width and index-width flags are both set (8-bit).
C20_EmulationWidths == cpu.emulationMode => (cpu.m /\ cpu.x_b)

\* The renderer Emulator.runLoop picks for a frame.
RenderPath(e) ==
    IF e.emergencyModeEnabled THEN "renderEmergencyGraphics" ELSE "renderFrame"

\* C18: a cartridge whose checksum and complement do not add up to 0xFFFF
\* still loads (no error, cartridge reported loaded), and its frames come
\* from the normal render path, from the same PPU state as for the same
\* cartridge with a valid checksum.
C18_Step ==
    (last'.op = "loadROM" /\ Images[last'.value] = MismatchImage) =>
        LET valid == EmulatorLoadROM(Components, S2Image)
        IN  /\ last'.error = "none"
            /\ emu'.romLoaded
            /\ RenderPath(emu') = "renderFrame"
            /\ RenderPath(emu') = RenderPath(valid.emu)
            /\ ppu' = valid.ppu

C18_MismatchLoads == [][C18_Step]_vars

\* C19 (the part a state can show): a read of 0x4212 returns bit 7 set
\* exactly while the memory map's vertical-blank flag is set.
C19_VBlankVisible == Bit(read8(memory, \h4212), 7) <=> memory.vblankActive

\* C21: whenever the index-width flag is set, X and Y hold 8-bit values,
\* after any sequence of transfers, pulls, loads, XCE and SEP.
C21_IndexEightBit == cpu.x_b => (cpu.x <= \hFF /\ cpu.y <= \hFF)

\* ------------------------------------------------------------------------
\* The accumulator under both widths: start(), width changes, loads and
\* accumulator arithmetic.
\* ------------------------------------------------------------------------
NextAcc ==
    \/ CPUStart
    \/ handleREP \/ handleSEP \/ handleXCE
    \/ handleLDA \/ handleAND_Immediate
    \/ handleINC_A \/ handleDEC_A \/ handleASL_A

SpecAcc == InitCPU /\ [][NextAcc]_vars

\* C22: with the memory-width flag set, an operation on the accumulator
\* (INC A, DEC A, ASL A, AND, a load into A), and the SEP that selects the
\* 8-bit width, leaves the accumulator's high byte as it was.
C22_Step ==
    ((last'.op \in {"INC_A", "DEC_A", "ASL_A", "AND", "LDA"} /\ cpu.m)
        \/ (last'.op = "SEP" /\ Bit(last'.value, 5)))
    => cpu'.a \div 256 = cpu.a \div 256

C22_HighBytePreserved == [][C22_Step]_vars

\* C23: after an instruction that updates Z and N, Z is set exactly when
\* the result is zero at the effective width of its destination (the
\* memory width for the accumulator, the index width for X and Y) and N is
\* the top bit of the result at that width.
ZNResult(c, op) ==
    IF op = "LDA" THEN c.a ELSE IF op \in {"LDX", "TAX", "TYX"} THEN c.x ELSE c.y

ZNWide(c, op) == IF op = "LDA" THEN ~c.m ELSE ~c.x_b

C23_Step ==
    (last'.op \in {"LDA", "LDX", "LDY", "TAX", "TAY", "TYX"}) =>
        LET result == ZNResult(cpu', last'.op)
            wide == ZNWide(cpu', last'.op)
        IN  /\ cpu'.z <=> (result % (IF wide THEN \h10000 ELSE \h100)) = 0
            /\ cpu'.n <=> Bit(result, IF wide THEN 15 ELSE 7)

C23_ZeroNegativeAtWidth == [][C23_Step]_vars

\* C24: XCE exchanges the carry flag and the emulation-mode flag, and
\* whenever the resulting mode is emulation the memory-width and
\* index-width flags are set and the stack pointer's high byte is 0x01
\* right after the instruction.
C24_Step ==
    last'.op = "XCE" =>
        /\ cpu'.c = cpu.emulationMode
        /\ cpu'.emulationMode = cpu.c
        /\ cpu'.emulationMode =>
              (cpu'.m /\ cpu'.x_b /\ cpu'.sp \div 256 = \h01)

C24_ExchangeAndEnforce == [][C24_Step]_vars

\* An XCE from native mode with 16-bit widths and a stack pointer outside
\* page one has entered emulation mode.
C24_EnteredEmulation ==
    /\ last.op = "XCE" /\ last.error = "none"
    /\ cpu.emulationMode /\ ~cpu.c
    /\ ~Bit(last.value, 5) /\ ~Bit(last.value, 4)
    /\ last.address \div 256 # \h01

\* C25: a taken NMI pushes PB (native mode only), then PC, then P, sets I,
\* clears D (native mode), sets PB to 0 and loads PC from the vector at
\* 0xFFEA (native) or 0xFFFA (emulation).  The pushes are read back from
\* the stack above the new stack pointer, last push first.
NMIStackByte(k) ==
    read8(memory', IF cpu.emulationMode
                   THEN \h0100 + ((cpu'.sp + k) % \h100)
                   ELSE (cpu'.sp + k) % \h10000)

C25_Step ==
    (last'.op = "NMI" /\ last'.error = "none") =>
        LET native == ~cpu.emulationMode
        IN  /\ NMIStackByte(1) = (IF native THEN getP(cpu)
                                  ELSE getStatusFlags(cpu, 0))
            /\ NMIStackByte(2) = cpu.pc % \h100
            /\ NMIStackByte(3) = cpu.pc \div \h100
            /\ native => NMIStackByte(4) = cpu.pbr
            /\ cpu'.i
            /\ native => ~cpu'.d_flag
            /\ cpu'.pbr = 0
            /\ cpu'.pc = read16(memory', IF native THEN \hFFEA ELSE \hFFFA)

C25_NMISequence == [][C25_Step]_vars

\* ------------------------------------------------------------------------
\* Interrupt requests: the CPU on a cartridge whose native and emulation
\* IRQ vectors differ, with triggerIRQ() calls between steps.
\* ------------------------------------------------------------------------
IRQImage ==
    Summed([S2Image EXCEPT !.length = \h8000,
                           !.vec = [ProgramVectors EXCEPT ![\h3E] = \h8200,
                                                          ![\h4E] = \h8300]])

InitIRQ ==
    /\ memory = MemoryLoadROM(MemoryNew, IRQImage)
    /\ cpu = CPUNew(MemoryLoadROM(MemoryNew, IRQImage))
    /\ ppu = PPUNew
    /\ emu = EmulatorNew
    /\ last = [op |-> "new", address |-> 0, value |-> 0, error |-> "none"]
    /\ dmaLog = EmptyArray
    /\ atReset = [memory |-> MemoryNew, ppu |-> PPUNew, emu |-> EmulatorNew]
    /\ snapshot = NoSnapshot
    /\ bus = BusNew
    /\ steps = 0

NextIRQ ==
    \/ CPUStart
    \/ handleREP \/ handleSEP \/ handleXCE \/ handleCLC \/ handleLDA
    \/ triggerIRQ \/ handleIRQ

SpecIRQ == InitIRQ /\ [][NextIRQ]_vars

\* C26: a requested IRQ is taken only at an instruction boundary where I
\* is clear; when taken, PC is loaded from the vector at 0xFFEE in native
\* mode and at 0xFFFE in emulation mode; while I is set the request stays
\* pending.
C26_Step ==
    /\ last'.op = "IRQ" =>
          /\ cpu.irqPending /\ ~cpu.i
          /\ last'.error = "none" =>
                cpu'.pc = read16(memory', IF cpu.emulationMode
                                          THEN \hFFFE ELSE \hFFEE)
    /\ (cpu.irqPending /\ cpu.i) => (last'.op # "IRQ" /\ cpu'.irqPending)

C26_IRQVector == [][C26_Step]_vars

\* C27 as stated: a read of 0x4210 returns bit 7 set exactly when vertical
\* blank was entered since the previous read of 0x4210.  Bit 7 of the
\* stored register is the record of an entry: setVBlankFlag(true) sets it
\* and only a read of 0x4210 clears it.
VBlankEntered(m) == Bit(Load(m.registers, \h4210 - \h2000), 7)

C27_AsStatedStep ==
    (last'.op = "read8" /\ last'.address = \h4210) =>
        (Bit(last'.value, 7) <=> VBlankEntered(memory))

C27_EnteredSinceRead == [][C27_AsStatedStep]_vars

\* C27, amended: a read of 0x4210 returns bit 7 set exactly when the
\* vertical-blank flag is set at the read (vertical blank was entered since
\* the previous read and the flag was not cleared by setVBlankFlag(false)
\* since), and the read clears it: a read that follows with no entry in
\* between returns bit 7 clear.
C27_Step ==
    (last'.op = "read8" /\ last'.address = \h4210) =>
        /\ Bit(last'.value, 7) <=> memory.vblankActive
        /\ Bit(last'.value, 7) => VBlankEntered(memory)
        /\ ~memory'.vblankActive /\ ~VBlankEntered(memory')
        /\ ~Bit(read8(memory', \h4210), 7)

C27_FlagClearsOnRead == [][C27_Step]_vars

\* A read of 0x4210 has returned the bit after an entry, and has cleared it.
C27_ReadSetBit ==
    /\ last.op = "read8" /\ last.address = \h4210
    /\ Bit(last.value, 7)
    /\ ~memory.vblankActive

\* ------------------------------------------------------------------------
\* The memory bus of an emulator that has been given the S2 image:
\* configureDMAChannel and executeDMATransfer calls, between writes to the
\* memory map.
\* ------------------------------------------------------------------------
BusChannels == {0, 1}

\* The channel settings offered: palette data from work-RAM, VRAM data
\* from the cartridge to two registers, a fixed source, the display
\* register as target, and a channel switched off.  The display-register
\* channel is set up as the first operation and started at once: what it
\* does (10,290 register writes) does not depend on what came before.
BusConfigs ==
    { [NoChannel EXCEPT !.enabled = TRUE, !.bAddress = \h2122,
                        !.aAddress = \h000010, !.size = 2],
      [NoChannel EXCEPT !.enabled = TRUE, !.mode = 1, !.bAddress = \h2118,
                        !.aAddress = \h008000, !.size = 3],
      [NoChannel EXCEPT !.enabled = TRUE, !.fixed = TRUE, !.mode = 1,
                        !.bAddress = \h2121, !.aAddress = \h000010, !.size = 2],
      [NoChannel EXCEPT !.enabled = TRUE, !.bAddress = \h2100,
                        !.aAddress = \h000010, !.size = 1],
      NoChannel }

BusConfigure ==
    /\ steps < MaxSteps
    /\ \E channel \in BusChannels, dma \in BusConfigs :
          /\ dma.bAddress = \h2100 => last.op = "loadROM"
          /\ bus' = configureDMAChannel(bus, channel, dma)
          /\ last' = [op |-> "configureDMAChannel", address |-> channel,
                      value |-> dma.bAddress, error |-> "none"]
    /\ steps' = steps + 1
    /\ UNCHANGED <<cpu, memory, ppu, emu, dmaLog, atReset, snapshot>>

BusExecute ==
    /\ steps < MaxSteps
    /\ \E channel \in BusChannels :
          /\ (bus.dmaChannels[channel].enabled
                 /\ bus.dmaChannels[channel].bAddress = \h2100)
              => (last.op = "configureDMAChannel" /\ last.address = channel
                    /\ last.value = \h2100)
          /\ \E st \in {executeDMATransfer(
                              bus, [memory |-> memory, ppu |-> ppu, log |-> <<>>],
                              channel)} :
                /\ memory' = st.memory
                /\ ppu' = st.ppu
                /\ bus' = [bus EXCEPT !.log = st.log]
                /\ last' = [op |-> "executeDMATransfer", address |-> channel,
                            value |-> 0, error |-> "none"]
    /\ steps' = steps + 1
    /\ UNCHANGED <<cpu, emu, dmaLog, atReset, snapshot>>

NextBus == BusConfigure \/ BusExecute \/ MemWrite8

SpecBus == InitMem /\ [][NextBus]_vars

\* C28: after a channel's transfer its enable bit is clear, so that a
\* second start without re-enabling the channel transfers nothing.
C28_Step ==
    last'.op = "executeDMATransfer" =>
        /\ ~bus'.dmaChannels[last'.address].enabled
        /\ (last.op = "executeDMATransfer" /\ last.address = last'.address)
              => bus'.log = <<>>

C28_EnableCleared == [][C28_Step]_vars

\* C29: an A-to-B transfer of n bytes (65536 when the size is 0) in mode 0
\* or 1 copies, for every k < n, the byte at A-bus address base + k (base
\* itself when the address is fixed) to the base B-bus register, or in
\* mode 1 to base for even k and base + 1 for odd k; each register is
\* left holding the last byte copied to it.
C29_Step ==
    LET dma == bus.dmaChannels[last'.address]
        n == IF dma.size = 0 THEN 65536 ELSE dma.size
        source(k) == IF dma.fixed THEN dma.aAddress ELSE dma.aAddress + k
        target(k) == dma.bAddress + (IF dma.mode = 1 /\ k % 2 = 1 THEN 1 ELSE 0)
    IN  (last'.op = "executeDMATransfer" /\ dma.enabled /\ ~dma.direction
           /\ dma.mode \in {0, 1})
        => /\ Len(bus'.log) = n
           /\ \A k \in 0..(n - 1) :
                 /\ bus'.log[k + 1][1] = source(k)
                 /\ \h2100 + bus'.log[k + 1][2] = target(k)
                 /\ bus'.log[k + 1][3] = readByteFromABus(bus, memory, source(k))
                 /\ (\A j \in (k + 1)..(n - 1) : target(j) # target(k))
                       => Load(memory'.registers, target(k) - \h2000)
                            = bus'.log[k + 1][3]

C29_ByteByByte == [][C29_Step]_vars

\* ------------------------------------------------------------------------
\* A Memory that holds a low-mapped cartridge declaring 8 KB of save-RAM:
\* write8, read8 and reset calls on save-RAM and work-RAM addresses.
\* ------------------------------------------------------------------------
SaveImage == Summed([S2Image EXCEPT !.sramCode = \h03])

SaveWrites ==
    { <<\h700000, \hAB>>, <<\h700000, \h5C>>, <<\h701FFF, \hAB>>,
      <<\h7D0010, \h5C>>, <<\h000010, \hAB>>, <<\h7E0010, \h5C>> }

SaveProbes == {\h700000, \h701FFF, \h7D0010}

\* address is a low-mapped save-RAM address inside the declared size
IsSaveRAM(m, address) ==
    LET bank == (address \div \h10000) % \h100
        offset == address % \h10000
    IN  /\ m.hasSRAM /\ m.isLoROM
        /\ bank >= \h70 /\ bank <= \h7D /\ offset < \h8000
        /\ (bank - \h70) * \h8000 + offset < m.sramSize

InitSave ==
    /\ memory = MemoryLoadROM(MemoryNew, SaveImage)
    /\ cpu = CPUNew(MemoryNew)
    /\ ppu = PPUNew
    /\ emu = EmulatorNew
    /\ last = [op |-> "loadROM", address |-> 0, value |-> 0, error |-> "none"]
    /\ dmaLog = EmptyArray
    /\ atReset = [memory |-> MemoryNew, ppu |-> PPUNew, emu |-> EmulatorNew]
    /\ snapshot = NoSnapshot
    /\ bus = BusNew
    /\ steps = 0

SaveWrite8 ==
    /\ steps < MaxSteps
    /\ \E w \in SaveWrites :
          /\ memory' = write8(memory, w[1], w[2])
          /\ last' = [op |-> "write8", address |-> w[1], value |-> w[2],
                      error |-> IF write8Throws(w[1]) THEN "TypeError"
                                ELSE "none"]
    /\ steps' = steps + 1
    /\ UNCHANGED <<cpu, ppu, emu, dmaLog, atReset, snapshot, bus>>

SaveRead8 ==
    /\ steps < MaxSteps
    /\ \E address \in SaveProbes \cup {\h000010} :
          /\ memory' = read8Effect(memory, address)
          /\ last' = [op |-> "read8", address |-> address,
                      value |-> read8(memory, address), error |-> "none"]
    /\ steps' = steps + 1
    /\ UNCHANGED <<cpu, ppu, emu, dmaLog, atReset, snapshot, bus>>

\* Memory.reset
MemReset ==
    /\ steps < MaxSteps
    /\ memory' = MemoryReset(memory)
    /\ last' = [op |-> "reset", address |-> 0, value |-> 0, error |-> "none"]
    /\ steps' = steps + 1
    /\ UNCHANGED <<cpu, ppu, emu, dmaLog, atReset, snapshot, bus>>

NextSave == SaveWrite8 \/ SaveRead8 \/ MemReset

SpecSave == InitSave /\ [][NextSave]_vars

\* C30: a byte written to a save-RAM address inside the declared size is
\* what a read of that address returns afterwards, and reset() leaves what
\* every save-RAM address reads unchanged.
C30_Step ==
    /\ (last'.op = "write8" /\ IsSaveRAM(memory, last'.address))
          => read8(memory', last'.address) = last'.value
    /\ last'.op = "reset"
          => \A address \in SaveProbes :
                IsSaveRAM(memory, address)
                   => read8(memory', address) = read8(memory, address)

C30_SaveRAMKept == [][C30_Step]_vars

\* C31: a byte written to a register address in 0x2100-0x5FFF that has no
\* special read behaviour is what a read of that address returns
\* afterwards.
SpecialReads == {\h2180, \h4210, \h4211, \h4212}

C31_Step ==
    (last'.op = "write8" /\ last'.address >= \h2100 /\ last'.address <= \h5FFF
       /\ last'.address \notin SpecialReads)
        => read8(memory', last'.address) = last'.value

C31_RegisterProjection == [][C31_Step]_vars

\* ------------------------------------------------------------------------
\* The CPU taking branches between calls and returns.
\* ------------------------------------------------------------------------
NextBranch ==
    \/ CPUStart
    \/ handleBRA
    \/ handleJSR_Absolute \/ handleRTS

SpecBranch == InitCPU /\ [][NextBranch]_vars

\* C32: BRA sets PC to the address of the byte after its operand plus the
\* sign-extended operand, modulo 2^16, and leaves PB unchanged.
C32_Step ==
    last'.op = "BRA" =>
        /\ cpu'.pc = (cpu.pc + 2 + SignExtend8(last'.value) + \h10000) % \h10000
        /\ cpu'.pbr = cpu.pbr

C32_BranchTarget == [][C32_Step]_vars

\* ------------------------------------------------------------------------
\* The busy-wait detection of step() (SpecLoop).  step() counts its
\* consecutive calls with the program counter in bank 0, 0xE680..0xE690, in
\* _busyWaitCounter, a field that reset() leaves alone; anywhere else it
\* sets the counter to zero, which is why the other specifications, whose
\* steps run outside that range, never see it move.
\* ------------------------------------------------------------------------
\* The cartridge of this specification: its reset vector points at a loop
\* inside the range, NOP at 0xE680 and BRA -3 at 0xE681.
LoopEntry == \hE680

LoopImage ==
    Summed([S2Image EXCEPT !.vec = [ProgramVectors EXCEPT ![\h4C] = LoopEntry]])

LoopCode == (\hE680 :> \hEA) @@ (\hE681 :> \h80) @@ (\hE682 :> \hFD)

BusyWaitLimit == 200

\* One call of step() on a running CPU at the loop: the 201st consecutive
\* call skips two bytes and returns before an opcode is fetched and before
\* the cycles are added.
step(c) ==
    LET counted == [c EXCEPT !._busyWaitCounter = @ + 1]
    IN  IF counted._busyWaitCounter > BusyWaitLimit
        THEN [counted EXCEPT !.pc = (@ + 2) % \h10000, !._busyWaitCounter = 0]
        ELSE IF LoopCode[c.pc] = \hEA
        THEN [counted EXCEPT !.pc = (@ + 1) % \h10000, !.cycles = @ + 2]
        ELSE [counted EXCEPT
                 !.pc = (c.pc + 2 + SignExtend8(LoopCode[c.pc + 1]) + \h10000)
                            % \h10000,
                 !.cycles = @ + 3]

LoopStep ==
    /\ cpu.isRunning
    /\ cpu.pbr = 0 /\ cpu.pc \in {\hE680, \hE681}
    /\ cpu' = step(cpu)
    /\ last' = [op |-> "step", address |-> cpu.pc,
                value |-> cpu._busyWaitCounter, error |-> "none"]
    /\ UNCHANGED <<memory, ppu, emu, dmaLog, atReset, snapshot, bus, steps>>

CPUReset ==
    /\ steps < MaxSteps
    /\ cpu' = [CPUNew(memory) EXCEPT
                  !.halted = cpu.halted,
                  !._busyWaitCounter = cpu._busyWaitCounter]
    /\ last' = [op |-> "reset", address |-> 0, value |-> 0, error |-> "none"]
    /\ steps' = steps + 1
    /\ UNCHANGED <<memory, ppu, emu, dmaLog, atReset, snapshot, bus>>

InitLoop ==
    /\ memory = MemoryLoadROM(MemoryNew, LoopImage)
    /\ cpu = CPUNew(MemoryLoadROM(MemoryNew, LoopImage))
    /\ ppu = PPUNew
    /\ emu = EmulatorNew
    /\ last = [op |-> "new", address |-> 0, value |-> 0, error |-> "none"]
    /\ dmaLog = EmptyArray
    /\ atReset = [memory |-> MemoryNew, ppu |-> PPUNew, emu |-> EmulatorNew]
    /\ snapshot = NoSnapshot
    /\ bus = BusNew
    /\ steps = 0

NextLoop ==
    \/ CPUStart
    \/ CPUReset
    \/ LoopStep

SpecLoop == InitLoop /\ [][NextLoop]_vars

\* What the claim calls the architectural state: every field of the CPU
\* but the detection counter.
Architectural(c) == [c EXCEPT !._busyWaitCounter = 0]

\* The CPU that was constructed on this memory, started, and has executed
\* nothing.
FreshStarted == [CPUNew(memory) EXCEPT !.isRunning = TRUE]

\* C33: step() is a function of the architectural state and memory: a CPU
\* that agrees with the freshly started one on every register, flag, bank
\* register and on the cycle count, over the same memory, is after one
\* step where the freshly started one is after its first step, whatever it
\* executed before.
C33_Step ==
    (last'.op = "step" /\ Architectural(cpu) = FreshStarted)
        => /\ Architectural(cpu') = Architectural(step(FreshStarted))
           /\ memory' = memory

C34_Step ==
    /\ (last.op = "JSR" /\ last.error = "none" /\ last'.op = "RTS")
          => cpu'.pc = ((last.value % \h10000) + 3) % \h10000
    /\ (last.op = "JSL" /\ last.error = "none" /\ last'.op = "RTL")
          => /\ cpu'.pc = ((last.value % \h10000) + 4) % \h10000
             /\ cpu'.pbr = last.value \div \h10000

C34_CallReturns == [][C34_Step]_vars

\* C35: every CPU register stays within its declared width: A, X, Y, SP,
\* PC and D in 0..0xFFFF, PB and DB in 0..0xFF.
C35_RegisterWidths ==
    /\ cpu.a \in 0..\hFFFF /\ cpu.x \in 0..\hFFFF /\ cpu.y \in 0..\hFFFF
    /\ cpu.sp \in 0..\hFFFF /\ cpu.pc \in 0..\hFFFF /\ cpu.d \in 0..\hFFFF
    /\ cpu.pbr \in 0..\hFF /\ cpu.dbr \in 0..\hFF

\* C36: in emulation mode a push writes its byte at the stack pointer it
\* finds, an address in page 0x01, and a pull reads its byte at the stack
\* pointer it leaves, again in page 0x01 (here for the one-byte push PHP
\* and the one-byte pull PLB).
C36_Step ==
    /\ (last'.op = "PHP" /\ cpu.emulationMode /\ last'.error = "none")
          => /\ cpu.sp \div 256 = \h01
             /\ read8(memory', cpu.sp) = getP(cpu)
    /\ (last'.op = "PLB" /\ cpu.emulationMode)
          => /\ cpu'.sp \div 256 = \h01
             /\ last'.value = read8(memory, cpu'.sp)

C36_StackAtSP == [][C36_Step]_vars

\* C39: the two cartridge address mappers agree: once a cartridge is held,
\* MemoryBus and Memory classify it alike (low-mapped or high-mapped), and
\* at every machine address the DMA source path and the CPU's read return
\* the same byte.
C39_MappersAgree ==
    memory.rom.length > 0 =>
        /\ bus.isLoROM = memory.isLoROM
        /\ \A address \in RomProbes :
              readByteFromABus(bus, memory, address) = read8(memory, address)

\* C40: the VRAM word address always indexes an existing VRAM word, and a
\* byte written through 0x2118 or 0x2119 is then found in its half of the
\* word at the address the write was made at.
C40_Step ==
    /\ ppu'._vramAddress < VRAM_WORDS
    /\ (last'.op = "writeRegister" /\ last'.address = \h18)
          => /\ ppu._vramAddress < VRAM_WORDS
             /\ vramBits(ppu'.vram, ppu._vramAddress) % 256 = last'.value
    /\ (last'.op = "writeRegister" /\ last'.address = \h19)
          => /\ ppu._vramAddress < VRAM_WORDS
             /\ vramBits(ppu'.vram, ppu._vramAddress) \div 256 = last'.value

C40_WordExists == [][C40_Step]_vars
====
